---- MODULE Spec2Model ----
(***************************************************************************)
(* A model of the core of raftlog2: the log history (src/log/history.rs),  *)
(* log suffixes (src/log/mod.rs), the consensus arithmetic of the cluster  *)
(* configuration (src/cluster.rs), the follower's Idle and Append          *)
(* sub-states (src/node_state/follower) and the leader's followers         *)
(* manager (src/node_state/leader/follower.rs).                            *)
(***************************************************************************)
EXTENDS Integers, Sequences, FiniteSets, TLC

VARIABLES
    appended_tail,   \* LogHistory.appended_tail
    committed_tail,  \* LogHistory.committed_tail
    consumed_tail,   \* LogHistory.consumed_tail
    records,         \* LogHistory.records (front of the VecDeque = element 1)
    sub_state,       \* the follower's sub-state: "Idle", "Append" or "Snapshot"
    append,          \* the FollowerAppend value while sub_state = "Append"
    installing,      \* the snapshot being installed, if any
    outbox,          \* the replies the last step of the follower sent
    handled,         \* how the last step of the follower ended
    config,          \* FollowersManager.config
    followers,       \* FollowersManager.followers
    f,               \* the per-member value handed to a consensus query
    values,          \* the vector handed to max_of_agreed_value
    result,          \* the operation called last and what it returned
    rawlogs,         \* the persisted LogSuffix of MockIo (None or Some)
    entry_terms,     \* the terms of the entries the appended suffixes hold
    latest_hearbeat_ack,    \* FollowersManager.latest_hearbeat_ack
    last_broadcast_seq_no,  \* FollowersManager.last_broadcast_seq_no
    tasks,           \* FollowersManager.tasks: the load_log request per node
    sent,            \* the nodes the last step of the leader sent a log to
    inbox,           \* the AppendEntriesCall on its way to the follower, if any
    next_seq_no      \* the sequence number of the leader's next call

vars == <<appended_tail, committed_tail, consumed_tail, records,
          sub_state, append, installing, outbox, handled,
          config, followers, f, values, result, rawlogs, entry_terms,
          latest_hearbeat_ack, last_broadcast_seq_no, tasks, sent,
          inbox, next_seq_no>>

history_vars == <<appended_tail, committed_tail, consumed_tail, records>>
follower_vars == <<sub_state, append, installing, outbox, handled>>
cluster_vars == <<config, followers, f, values, result>>
log_vars == <<rawlogs, entry_terms>>
sync_vars == <<latest_hearbeat_ack, last_broadcast_seq_no, tasks, sent>>
net_vars == <<inbox, next_seq_no>>

----------------------------------------------------------------------------
(* Bounds of the model. *)

MaxTerm == 2
MaxIndex == 2
MaxLen == 2
MaxRecords == 2

Terms == 0..MaxTerm
Indices == 0..MaxIndex

----------------------------------------------------------------------------
(* Option values: None is the empty tuple, Some(x) the one-element tuple. *)

None == <<>>
Some(x) == <<x>>

----------------------------------------------------------------------------
(* src/cluster.rs: cluster configurations. *)

ClusterConfig(new, old, state) == [new |-> new, old |-> old, state |-> state]

ClusterConfig_new(members) == ClusterConfig(members, {}, "Stable")

primary_members(c) ==
    CASE c.state = "Stable" -> c.new
      [] c.state = "CatchUp" -> c.old
      [] c.state = "Joint" -> c.old

is_known_node(c, node) == node \in c.new \/ node \in c.old

start_config_change(c, new) == ClusterConfig(new, primary_members(c), "CatchUp")

\* A to_next_state whose Joint -> Stable step keeps the old members.
to_next_state_keeping_old(c) ==
    CASE c.state = "Stable" -> c
      [] c.state = "CatchUp" -> [c EXCEPT !.state = "Joint"]
      [] c.state = "Joint" -> [c EXCEPT !.state = "Stable"]

to_next_state(c) ==
    CASE c.state = "Stable" -> c
      [] c.state = "CatchUp" -> [c EXCEPT !.state = "Joint"]
      [] c.state = "Joint" -> [c EXCEPT !.old = {}, !.state = "Stable"]

members(c) == c.new \cup c.old

\* ClusterMembers is a BTreeSet: it is iterated in the order of the node ids.
NodeOrder == <<"A", "B", "C", "D", "E">>

iter(set) == SelectSeq(NodeOrder, LAMBDA n : n \in set)

\* A majority that rounds the half up instead of adding one to it.
majority_half_up(n) == (n + 1) \div 2

majority(n) == 1 + (n \div 2)

\* v.sort_unstable(): the ascending rearrangement of v, by insertion.
RECURSIVE sort_insert(_, _)
sort_insert(s, x) ==
    IF s = <<>> THEN <<x>>
    ELSE IF x <= Head(s) THEN <<x>> \o s
    ELSE <<Head(s)>> \o sort_insert(Tail(s), x)

RECURSIVE sort_unstable(_)
sort_unstable(v) ==
    IF v = <<>> THEN <<>>
    ELSE sort_insert(sort_unstable(Tail(v)), Head(v))

\* v[v.len() - majority] of the sorted vector (0-based in the code).
max_of_agreed_value(v) ==
    LET sorted == sort_unstable(v)
    IN  sorted[(Len(v) - majority(Len(v))) + 1]

\* median panics on an empty member set (None), else it returns Some(value).
median(set, fn) ==
    IF set = {} THEN None
    ELSE LET ms == iter(set)
         IN  Some(max_of_agreed_value([k \in 1..Len(ms) |-> fn[ms[k]]]))

\* cmp::min of two medians; evaluating either of them may panic.
cmp_min(a, b) ==
    IF a = None \/ b = None THEN None
    ELSE IF b[1] < a[1] THEN b ELSE a

\* A Joint consensus that takes one median over the union of new and old.
consensus_value_union(c, fn) ==
    CASE c.state = "Stable" -> median(c.new, fn)
      [] c.state = "CatchUp" -> median(c.old, fn)
      [] c.state = "Joint" -> median(c.new \cup c.old, fn)

consensus_value(c, fn) ==
    CASE c.state = "Stable" -> median(c.new, fn)
      [] c.state = "CatchUp" -> median(c.old, fn)
      [] c.state = "Joint" -> cmp_min(median(c.new, fn), median(c.old, fn))

\* A full consensus that asks the old members only while in CatchUp.
full_consensus_value_primary(c, fn) ==
    CASE c.state = "Stable" -> median(c.new, fn)
      [] c.state = "CatchUp" -> median(c.old, fn)
      [] c.state = "Joint" -> cmp_min(median(c.new, fn), median(c.old, fn))

full_consensus_value(c, fn) ==
    IF c.state = "Stable" THEN median(c.new, fn)
    ELSE cmp_min(median(c.new, fn), median(c.old, fn))

----------------------------------------------------------------------------
(* src/node_state/leader/follower.rs: the leader's followers manager. *)

Follower(obsolete_seq_no, log_tail, last_seq_no, synced) ==
    [obsolete_seq_no |-> obsolete_seq_no, log_tail |-> log_tail,
     last_seq_no |-> last_seq_no, synced |-> synced]

Follower_new == Follower(0, 0, 0, FALSE)

\* The followers map and the configuration of a FollowersManager.
FollowersManager(c, fs) == [config |-> c, followers |-> fs]

FollowersManager_new(c) ==
    FollowersManager(c, [n \in members(c) |-> Follower_new])

\* A handle_config_updated that lacks the removal of the unknown nodes.
handle_config_updated_no_delete(fm, c) ==
    FollowersManager(c,
        [n \in DOMAIN fm.followers \cup members(c) |->
            IF n \in DOMAIN fm.followers THEN fm.followers[n] ELSE Follower_new])

handle_config_updated(fm, c) ==
    LET added == [n \in DOMAIN fm.followers \cup members(c) |->
                     IF n \in DOMAIN fm.followers THEN fm.followers[n]
                     ELSE Follower_new]
        kept == {n \in DOMAIN added : is_known_node(c, n)}
    IN  FollowersManager(c, [n \in kept |-> added[n]])

\* A closure that counts the log_tail of a follower that is not synced.
any_log_tail(fs) == [n \in DOMAIN fs |-> fs[n].log_tail]

\* The closure of committed_log_tail and joint_committed_log_tail.
synced_log_tail(fs) ==
    [n \in DOMAIN fs |-> IF fs[n].synced THEN fs[n].log_tail ELSE 0]

committed_log_tail(c, fs) == consensus_value(c, synced_log_tail(fs))

joint_committed_log_tail(c, fs) == full_consensus_value(c, synced_log_tail(fs))


----------------------------------------------------------------------------
(* src/log/mod.rs: positions, entries and suffixes. *)

LogPosition(prev_term, index) == [prev_term |-> prev_term, index |-> index]

LogPosition_default == LogPosition(0, 0)

\* An entry that is no Config entry carries the placeholder NoConfig.
NoConfig == ClusterConfig({}, {}, "None")

LogEntry(kind, t, c) == [kind |-> kind, term |-> t, config |-> c]

term(e) == e.term

LogSuffix(head, entries) == [head |-> head, entries |-> entries]

\* A snapshot; its opaque bytes are left out.
LogPrefix(tl, c) == [tail |-> tl, config |-> c]

\* A tail that names the term of the head whatever the entries are.
tail_with_head_term(suffix) ==
    LogPosition(suffix.head.prev_term, suffix.head.index + Len(suffix.entries))

tail(suffix) ==
    IF Len(suffix.entries) > 0
    THEN LogPosition(term(suffix.entries[Len(suffix.entries)]),
                     suffix.head.index + Len(suffix.entries))
    ELSE suffix.head

----------------------------------------------------------------------------
(* src/log/history.rs: the log history.  A history value is a record of   *)
(* the four fields; every mutator returns the kind of its outcome ("Ok",  *)
(* an error kind, or "panic") and the history it leaves behind.           *)

HistoryRecord(head, c) == [head |-> head, config |-> c]

LogHistory(at, cmt, cns, recs) ==
    [appended_tail |-> at, committed_tail |-> cmt, consumed_tail |-> cns,
     records |-> recs]

LogHistory_new(c) ==
    LogHistory(LogPosition_default, LogPosition_default, LogPosition_default,
               <<HistoryRecord(LogPosition_default, c)>>)

Outcome(kind, h) == [kind |-> kind, h |-> h]

head(h) == h.records[1].head

last_record(h) == h.records[Len(h.records)]

\* The reverse scan of get_record from position k of the records.
RECURSIVE get_record_from(_, _, _)
get_record_from(recs, index, k) ==
    IF k = 0 THEN None
    ELSE IF recs[k].head.index <= index THEN Some(recs[k])
    ELSE get_record_from(recs, index, k - 1)

get_record(h, index) == get_record_from(h.records, index, Len(h.records))

\* The loop of record_appended over the entries from position i (1-based):
\* it returns the records pushed so far and whether the term assertion held.
RECURSIVE append_entries(_, _, _)
append_entries(recs, suffix, i) ==
    IF i > Len(suffix.entries) THEN [ok |-> TRUE, records |-> recs]
    ELSE
        LET e == suffix.entries[i]
            \* i is 1-based here, so suffix.head.index + i is the code's
            \* suffix.head.index + i + 1
            tl == LogPosition(term(e), suffix.head.index + i)
            recs1 == IF e.kind = "Config" /\ recs[Len(recs)].config # e.config
                     THEN Append(recs, HistoryRecord(tl, e.config))
                     ELSE recs
            last1 == recs1[Len(recs1)]
        IN  IF tl.prev_term # last1.head.prev_term
            THEN IF last1.head.prev_term < tl.prev_term
                 THEN append_entries(Append(recs1, HistoryRecord(tl, last1.config)),
                                     suffix, i + 1)
                 ELSE [ok |-> FALSE, records |-> recs1]
            ELSE append_entries(recs1, suffix, i + 1)

\* A record_appended that walks the entries of the overlap as well.
record_appended_from_first_entry(h, suffix) ==
    IF h.appended_tail.index < suffix.head.index
    THEN Outcome("panic", h)
    ELSE
        LET r == append_entries(h.records, suffix, 1)
        IN  IF r.ok
            THEN Outcome("Ok", [h EXCEPT !.records = r.records,
                                         !.appended_tail = tail(suffix)])
            ELSE Outcome("Other", [h EXCEPT !.records = r.records])

record_appended(h, suffix) ==
    IF h.appended_tail.index < suffix.head.index
    THEN Outcome("panic", h)
    ELSE
        LET entries_offset == h.appended_tail.index - suffix.head.index
            r == append_entries(h.records, suffix, entries_offset + 1)
        IN  IF r.ok
            THEN Outcome("Ok", [h EXCEPT !.records = r.records,
                                         !.appended_tail = tail(suffix)])
            ELSE Outcome("Other", [h EXCEPT !.records = r.records])

\* record_committed without its assertion on the current committed tail.
record_committed_no_floor(h, new_tail_index) ==
    IF ~(new_tail_index <= h.appended_tail.index) THEN Outcome("Other", h)
    ELSE
        LET r == get_record(h, new_tail_index)
        IN  IF r = None THEN Outcome("Other", h)
            ELSE Outcome("Ok", [h EXCEPT !.committed_tail =
                                   LogPosition(r[1].head.prev_term, new_tail_index)])

record_committed(h, new_tail_index) ==
    IF ~(h.committed_tail.index <= new_tail_index) THEN Outcome("Other", h)
    ELSE IF ~(new_tail_index <= h.appended_tail.index) THEN Outcome("Other", h)
    ELSE
        LET r == get_record(h, new_tail_index)
        IN  IF r = None THEN Outcome("Other", h)
            ELSE Outcome("Ok", [h EXCEPT !.committed_tail =
                                   LogPosition(r[1].head.prev_term, new_tail_index)])

record_consumed(h, new_tail_index) ==
    IF ~(h.consumed_tail.index <= new_tail_index) THEN Outcome("Other", h)
    ELSE IF ~(new_tail_index <= h.committed_tail.index) THEN Outcome("Other", h)
    ELSE
        LET r == get_record(h, new_tail_index)
        IN  IF r = None THEN Outcome("Other", h)
            ELSE Outcome("Ok", [h EXCEPT !.consumed_tail =
                                   LogPosition(r[1].head.prev_term, new_tail_index)])

\* records.iter().position(|r| r.head.index > new_tail.index), 1-based;
\* 0 when there is none.
RECURSIVE first_after(_, _, _)
first_after(recs, index, k) ==
    IF k > Len(recs) THEN 0
    ELSE IF recs[k].head.index > index THEN k
    ELSE first_after(recs, index, k + 1)

\* record_rollback without its assertion on the committed tail.
record_rollback_below_committed(h, new_tail) ==
    IF ~(new_tail.index <= h.appended_tail.index) THEN Outcome("Other", h)
    ELSE
        LET r == get_record(h, new_tail.index)
        IN  IF r = None \/ r[1].head.prev_term # new_tail.prev_term
            THEN Outcome("InconsistentState", h)
            ELSE
                LET p == first_after(h.records, new_tail.index, 1)
                IN  Outcome("Ok", [h EXCEPT
                        !.appended_tail = new_tail,
                        !.records = IF p = 0 THEN h.records
                                    ELSE SubSeq(h.records, 1, p - 1)])

record_rollback(h, new_tail) ==
    IF ~(new_tail.index <= h.appended_tail.index) THEN Outcome("Other", h)
    ELSE IF ~(h.committed_tail.index <= new_tail.index) THEN Outcome("Other", h)
    ELSE
        LET r == get_record(h, new_tail.index)
        IN  IF r = None \/ r[1].head.prev_term # new_tail.prev_term
            THEN Outcome("InconsistentState", h)
            ELSE
                LET p == first_after(h.records, new_tail.index, 1)
                IN  Outcome("Ok", [h EXCEPT
                        !.appended_tail = new_tail,
                        !.records = IF p = 0 THEN h.records
                                    ELSE SubSeq(h.records, 1, p - 1)])

\* The pop_front loop of record_snapshot_installed.
RECURSIVE drop_front(_, _)
drop_front(recs, index) ==
    IF Len(recs) > 0 /\ recs[1].head.index <= index
    THEN drop_front(Tail(recs), index)
    ELSE recs

record_snapshot_installed(h, new_head, c) ==
    IF ~(head(h).index <= new_head.index) THEN Outcome("InconsistentState", h)
    ELSE
        Outcome("Ok", [h EXCEPT
            !.records = <<HistoryRecord(new_head, c)>> \o drop_front(h.records, new_head.index),
            !.appended_tail = IF h.appended_tail.index < new_head.index
                              THEN new_head ELSE h.appended_tail,
            !.committed_tail = IF h.committed_tail.index < new_head.index
                               THEN new_head ELSE h.committed_tail])

\* record_snapshot_loaded that takes the snapshot's tail even when the
\* consumed tail is already beyond it.
record_snapshot_loaded_always(h, snapshot) ==
    IF ~(snapshot.tail.index <= h.committed_tail.index)
    THEN Outcome("InconsistentState", h)
    ELSE Outcome("Ok", [h EXCEPT !.consumed_tail = snapshot.tail])

record_snapshot_loaded(h, snapshot) ==
    IF h.consumed_tail.index < snapshot.tail.index
    THEN IF ~(snapshot.tail.index <= h.committed_tail.index)
         THEN Outcome("InconsistentState", h)
         ELSE Outcome("Ok", [h EXCEPT !.consumed_tail = snapshot.tail])
    ELSE Outcome("Ok", h)

----------------------------------------------------------------------------
(* src/log/mod.rs: the positions of a suffix and skip_to. *)

\* LogPositions: the head, then the position after each entry.
positions(suffix) ==
    [k \in 1..(Len(suffix.entries) + 1) |->
        IF k = 1 THEN suffix.head
        ELSE LogPosition(term(suffix.entries[k - 1]), suffix.head.index + (k - 1))]

\* A skip_to that moves head.index and leaves head.prev_term as it was.
skip_to_keeping_prev_term(suffix, new_head) ==
    IF ~(suffix.head.index <= new_head /\ new_head <= tail(suffix).index)
    THEN [kind |-> "InvalidInput", suffix |-> suffix]
    ELSE [kind |-> "Ok",
          suffix |-> LogSuffix(
              LogPosition(suffix.head.prev_term, new_head),
              SubSeq(suffix.entries, (new_head - suffix.head.index) + 1,
                     Len(suffix.entries)))]

\* skip_to returns the kind of its outcome and the suffix it leaves.
skip_to(suffix, new_head) ==
    IF ~(suffix.head.index <= new_head)
    THEN [kind |-> "InvalidInput", suffix |-> suffix]
    ELSE IF ~(new_head <= tail(suffix).index)
    THEN [kind |-> "InvalidInput", suffix |-> suffix]
    ELSE
        LET count == new_head - suffix.head.index
        IN  IF count = 0 THEN [kind |-> "Ok", suffix |-> suffix]
            ELSE [kind |-> "Ok",
                  suffix |-> LogSuffix(
                      LogPosition(term(suffix.entries[count]), suffix.head.index + count),
                      SubSeq(suffix.entries, count + 1, Len(suffix.entries)))]

\* A truncate that keeps one entry beyond new_tail.
truncate_one_beyond(suffix, new_tail) ==
    IF ~(suffix.head.index <= new_tail /\ new_tail <= tail(suffix).index)
    THEN [kind |-> "InvalidInput", suffix |-> suffix]
    ELSE [kind |-> "Ok",
          suffix |-> LogSuffix(suffix.head,
                         SubSeq(suffix.entries, 1,
                                IF new_tail < tail(suffix).index
                                THEN (new_tail - suffix.head.index) + 1
                                ELSE Len(suffix.entries)))]

\* truncate returns the kind of its outcome and the suffix it leaves.
truncate(suffix, new_tail) ==
    IF ~(suffix.head.index <= new_tail)
    THEN [kind |-> "InvalidInput", suffix |-> suffix]
    ELSE IF ~(new_tail <= tail(suffix).index)
    THEN [kind |-> "InvalidInput", suffix |-> suffix]
    ELSE
        LET delta == tail(suffix).index - new_tail
            new_len == Len(suffix.entries) - delta
        IN  [kind |-> "Ok",
             suffix |-> LogSuffix(suffix.head, SubSeq(suffix.entries, 1, new_len))]

\* A slice whose head keeps the prev_term of the head of self.
slice_with_head_term(self, start, end) ==
    IF ~(self.head.index <= start /\ start <= end /\ end <= tail(self).index)
    THEN [kind |-> "InvalidInput", suffix |-> self]
    ELSE [kind |-> "Ok",
          suffix |-> LogSuffix(
              LogPosition(self.head.prev_term, start),
              SubSeq(self.entries, (start - self.head.index) + 1,
                     end - self.head.index))]

\* slice returns the kind of its outcome and, when it is Ok, the suffix cut
\* out (self otherwise); self is not written.
slice(self, start, end) ==
    IF ~(self.head.index <= start)
    THEN [kind |-> "InvalidInput", suffix |-> self]
    ELSE IF ~(start <= end)
    THEN [kind |-> "InvalidInput", suffix |-> self]
    ELSE IF ~(end <= tail(self).index)
    THEN [kind |-> "InvalidInput", suffix |-> self]
    ELSE
        LET slice_start == start - self.head.index
            slice_end == end - self.head.index
            slice_head == IF start = self.head.index THEN self.head
                          ELSE LogPosition(term(self.entries[slice_start]), start)
        IN  [kind |-> "Ok",
             suffix |-> LogSuffix(slice_head,
                            SubSeq(self.entries, slice_start + 1, slice_end))]

\* LogPosition::is_newer_or_equal_than.
is_newer_or_equal_than(p, other) ==
    p.prev_term >= other.prev_term /\ p.index >= other.index

\* positions().nth(n), n counted from 0.
positions_nth(suffix, n) ==
    IF n + 1 <= Len(positions(suffix)) THEN Some(positions(suffix)[n + 1]) ELSE None

\* merge returns the kind of its outcome ("panic" when one of its two
\* assertions fails) and the suffix it leaves.
merge(self, next) ==
    IF tail(self).index # next.head.index
    THEN [kind |-> "panic", suffix |-> self]
    ELSE
        LET entries_offset == IF self.head.index <= next.head.index THEN 0
                              ELSE self.head.index - next.head.index
            offset == (next.head.index + entries_offset) - self.head.index
            prev_term == IF offset = 0 THEN self.head.prev_term
                         ELSE term(self.entries[offset])
            at == positions_nth(next, entries_offset)
        IN  IF at = None \/ at[1].prev_term # prev_term
            THEN [kind |-> "panic", suffix |-> self]
            ELSE [kind |-> "Ok",
                  suffix |-> LogSuffix(
                      self.head,
                      SubSeq(self.entries, 1, offset)
                          \o SubSeq(next.entries, entries_offset + 1,
                                    Len(next.entries)))]

\* MockIo::save_log_suffix on the persisted suffix saved (None or Some).
save_log_suffix(saved, suffix) ==
    IF saved # None
    THEN IF ~is_newer_or_equal_than(suffix.head, saved[1].head)
         THEN [kind |-> "panic", rawlogs |-> saved]
         ELSE LET m == merge(saved[1], suffix)
              IN  [kind |-> m.kind, rawlogs |-> Some(m.suffix)]
    ELSE [kind |-> "Ok", rawlogs |-> Some(suffix)]

----------------------------------------------------------------------------
(* src/node_state/leader/follower.rs: the replies of the followers, the   *)
(* background reads and run_once.  The leader's log is the history that   *)
(* Common holds: log().tail() is its appended_tail.                       *)

\* The closure of handle_append_entries_reply.
last_seq_nos(fs) == [n \in DOMAIN fs |-> fs[n].last_seq_no]

\* An update of the sender's record that presumes the tail the reply names
\* when the terms disagree, and does not step back.
updated_follower_without_back_off(follower, log, reply) ==
    LET f1 == IF follower.last_seq_no < reply.header.seq_no
              THEN [follower EXCEPT !.last_seq_no = reply.header.seq_no]
              ELSE follower
    IN  IF reply.busy THEN [follower |-> f1, updated |-> FALSE]
        ELSE IF f1.synced
        THEN LET updated == f1.log_tail < reply.log_tail.index
             IN  [follower |->
                      IF updated THEN [f1 EXCEPT !.log_tail = reply.log_tail.index]
                      ELSE IF reply.log_tail.index = 0 /\ f1.log_tail # 0
                      THEN [f1 EXCEPT !.synced = FALSE]
                      ELSE f1,
                  updated |-> updated]
        ELSE LET leader_term == get_record(log, reply.log_tail.index)
                 synced == /\ leader_term # None
                           /\ leader_term[1].head.prev_term = reply.log_tail.prev_term
             IN  [follower |-> [f1 EXCEPT !.synced = synced,
                                          !.log_tail = reply.log_tail.index],
                  updated |-> synced]

\* What update_follower_state leaves in the record of the sender, and the
\* flag it returns; log is the leader's history (common.log()).
updated_follower(follower, log, reply) ==
    LET f1 == IF follower.last_seq_no < reply.header.seq_no
              THEN [follower EXCEPT !.last_seq_no = reply.header.seq_no]
              ELSE follower
    IN  IF reply.busy THEN [follower |-> f1, updated |-> FALSE]
        ELSE IF f1.synced
        THEN LET updated == f1.log_tail < reply.log_tail.index
             IN  [follower |->
                      IF updated THEN [f1 EXCEPT !.log_tail = reply.log_tail.index]
                      ELSE IF reply.log_tail.index = 0 /\ f1.log_tail # 0
                      THEN [f1 EXCEPT !.synced = FALSE]
                      ELSE f1,
                  updated |-> updated]
        ELSE LET leader_term == get_record(log, reply.log_tail.index)
                 synced == /\ leader_term # None
                           /\ leader_term[1].head.prev_term = reply.log_tail.prev_term
             IN  [follower |->
                      [f1 EXCEPT !.synced = synced,
                                 !.log_tail =
                                     IF synced THEN reply.log_tail.index
                                     ELSE IF reply.log_tail.index = 0 THEN 0
                                     ELSE reply.log_tail.index - 1],
                  updated |-> synced]

\* An update_follower_state that takes the tail of every reply that is not
\* busy, a lower one included.
update_follower_state_taking_any_tail(fs, log, reply) ==
    LET who_send == reply.header.sender
        r == updated_follower(fs[who_send], log, reply)
    IN  IF who_send \notin DOMAIN fs
        THEN [kind |-> "panic", followers |-> fs, updated |-> FALSE]
        ELSE [kind |-> "Ok",
              followers |->
                  [fs EXCEPT ![who_send] =
                      IF reply.busy THEN r.follower
                      ELSE [r.follower EXCEPT !.log_tail = reply.log_tail.index]],
              updated |-> r.updated]

update_follower_state(fs, log, reply) ==
    LET who_send == reply.header.sender
    IN  IF who_send \notin DOMAIN fs
        THEN [kind |-> "panic", followers |-> fs, updated |-> FALSE]
        ELSE LET r == updated_follower(fs[who_send], log, reply)
             IN  [kind |-> "Ok",
                  followers |-> [fs EXCEPT ![who_send] = r.follower],
                  updated |-> r.updated]

\* handle_append_entries_reply on the followers fs, the configuration c and
\* the latest acknowledged heartbeat ack.
handle_append_entries_reply(c, fs, ack, log, reply) ==
    LET u == update_follower_state(fs, log, reply)
        \* None: the median of an empty member set panics
        v == consensus_value(c, last_seq_nos(u.followers))
    IN  IF u.kind = "Ok" /\ ack < reply.header.seq_no
        THEN [kind |-> IF v = None THEN "panic" ELSE "Ok",
              followers |-> u.followers,
              latest_hearbeat_ack |-> IF v = None THEN ack ELSE v[1],
              updated |-> u.updated]
        ELSE [kind |-> u.kind, followers |-> u.followers,
              latest_hearbeat_ack |-> ack, updated |-> u.updated]

\* The request of a load_log(start, Some(end)) future.
LoadLog(start, end) == [start |-> start, end |-> end]

\* A log_sync that lacks the test of the reply's seq_no.
log_sync_ignoring_obsolete(fs, ts, last_broadcast, log, reply) ==
    LET sender == reply.header.sender
    IN  IF reply.busy \/ sender \in DOMAIN ts
        THEN [kind |-> "Ok", followers |-> fs, tasks |-> ts]
        ELSE IF sender \notin DOMAIN fs
        THEN [kind |-> "InconsistentState", followers |-> fs, tasks |-> ts]
        ELSE
            LET fs1 == [fs EXCEPT ![sender].obsolete_seq_no = last_broadcast]
                follower == fs1[sender]
                end == IF follower.synced THEN log.appended_tail.index
                       ELSE follower.log_tail
            IN  IF log.appended_tail.index <= follower.log_tail
                THEN [kind |-> "Ok", followers |-> fs1, tasks |-> ts]
                ELSE [kind |-> "Ok", followers |-> fs1,
                      tasks |-> [n \in DOMAIN ts \cup {sender} |->
                                    IF n = sender
                                    THEN [start |-> follower.log_tail, end |-> end]
                                    ELSE ts[n]]]

\* A log_sync that reads the log for the synced followers only: it sends no
\* probe to a follower whose sync point is not found yet.
log_sync_without_probe(fs, ts, last_broadcast, log, reply) ==
    LET sender == reply.header.sender
    IN  IF reply.busy \/ sender \in DOMAIN ts
        THEN [kind |-> "Ok", followers |-> fs, tasks |-> ts]
        ELSE IF sender \notin DOMAIN fs
        THEN [kind |-> "InconsistentState", followers |-> fs, tasks |-> ts]
        ELSE IF reply.header.seq_no <= fs[sender].obsolete_seq_no
        THEN [kind |-> "Ok", followers |-> fs, tasks |-> ts]
        ELSE
            LET fs1 == [fs EXCEPT ![sender].obsolete_seq_no = last_broadcast]
                follower == fs1[sender]
            IN  IF log.appended_tail.index <= follower.log_tail \/ ~follower.synced
                THEN [kind |-> "Ok", followers |-> fs1, tasks |-> ts]
                ELSE [kind |-> "Ok", followers |-> fs1,
                      tasks |-> [n \in DOMAIN ts \cup {sender} |->
                                    IF n = sender
                                    THEN LoadLog(follower.log_tail,
                                                 log.appended_tail.index)
                                    ELSE ts[n]]]

\* log_sync on the followers fs and the read tasks ts; last_broadcast is
\* last_broadcast_seq_no and log the leader's history.
log_sync(fs, ts, last_broadcast, log, reply) ==
    LET sender == reply.header.sender
    IN  IF reply.busy \/ sender \in DOMAIN ts
        THEN [kind |-> "Ok", followers |-> fs, tasks |-> ts]
        ELSE IF sender \notin DOMAIN fs
        THEN [kind |-> "InconsistentState", followers |-> fs, tasks |-> ts]
        ELSE IF reply.header.seq_no <= fs[sender].obsolete_seq_no
        THEN [kind |-> "Ok", followers |-> fs, tasks |-> ts]
        ELSE
            LET fs1 == [fs EXCEPT ![sender].obsolete_seq_no = last_broadcast]
                follower == fs1[sender]
                end == IF follower.synced THEN log.appended_tail.index
                       ELSE follower.log_tail
            IN  IF log.appended_tail.index <= follower.log_tail
                THEN [kind |-> "Ok", followers |-> fs1, tasks |-> ts]
                ELSE [kind |-> "Ok", followers |-> fs1,
                      tasks |-> [n \in DOMAIN ts \cup {sender} |->
                                    IF n = sender
                                    THEN LoadLog(follower.log_tail, end)
                                    ELSE ts[n]]]

\* run_once of the followers manager when the read tasks of the nodes in
\* dones are ready: a log is sent to each of them and its task is removed.
FollowersManager_run_once(ts, dones) ==
    [sent |-> dones, tasks |-> [n \in DOMAIN ts \ dones |-> ts[n]]]

----------------------------------------------------------------------------
(* Messages and the parts of Common the follower calls.  Common and the   *)
(* reply builder are not among the source files: they are modelled from   *)
(* the specification (sections 4.3 and 6).                                *)

AppendEntriesCall(header, suffix, leader_committed) ==
    [type |-> "AppendEntriesCall", header |-> header, suffix |-> suffix,
     committed_log_tail |-> leader_committed]

InstallSnapshotCast(header, prefix) ==
    [type |-> "InstallSnapshotCast", header |-> header, prefix |-> prefix]

AppendEntriesReply(header, log_tail, busy) ==
    [header |-> header, log_tail |-> log_tail, busy |-> busy]

reply_append_entries(header, log_tail) == AppendEntriesReply(header, log_tail, FALSE)

reply_busy(h, header) == AppendEntriesReply(header, h.appended_tail, TRUE)

handle_log_rollbacked(h, new_tail) == record_rollback(h, new_tail)

handle_log_appended(h, suffix) == record_appended(h, suffix)

handle_log_committed(h, new_tail_index) == record_committed(h, new_tail_index)

is_snapshot_installing(inst) == inst # None

----------------------------------------------------------------------------
(* src/node_state/follower: the Idle and Append sub-states.  A handler    *)
(* returns the kind of its outcome, the history it leaves, the sub-state  *)
(* it moves to (None: it stays) and the replies it sent.                  *)

Handled(kind, h, next, replies) ==
    [kind |-> kind, h |-> h, next |-> next, replies |-> replies]

\* NextState: the sub-state a handler moves to, with its FollowerAppend.
NextState(sub, fa) == Some([sub_state |-> sub, append |-> fa])

\* The index that stands for u64::MAX (LogIndex is a u64; the model's
\* integers are narrower): what 0 - 1 wraps to without overflow checks.
U64_MAX == 2147483647

\* index - 1 on a LogIndex: with overflow checks 0 - 1 panics, without them
\* it wraps around.
index_minus_one(index, overflow_checks) ==
    IF index > 0 THEN Some(index - 1)
    ELSE IF overflow_checks THEN None
    ELSE Some(U64_MAX)

\* The walk of longest_common_prefix from the k-th position of the suffix.
RECURSIVE lcp_walk(_, _, _, _)
lcp_walk(h, suffix, k, overflow_checks) ==
    IF k > Len(positions(suffix))
    THEN [kind |-> "Ok", matched |-> TRUE, lcp |-> tail(suffix)]
    ELSE
        LET pos == positions(suffix)[k]
            record == get_record(h, pos.index)
        IN  IF record = None
            THEN [kind |-> "InconsistentState", matched |-> FALSE, lcp |-> pos]
            ELSE IF pos.prev_term # record[1].head.prev_term
            THEN
                LET before == index_minus_one(pos.index, overflow_checks)
                IN  IF before = None
                    THEN [kind |-> "panic", matched |-> FALSE, lcp |-> pos]
                    ELSE
                        LET r == get_record(h, before[1])
                        IN  IF r = None
                            THEN [kind |-> "InconsistentState", matched |-> FALSE,
                                  lcp |-> pos]
                            ELSE [kind |-> "Ok", matched |-> FALSE,
                                  lcp |-> LogPosition(r[1].head.prev_term, before[1])]
            ELSE IF pos.index = h.appended_tail.index
            THEN [kind |-> "Ok", matched |-> TRUE, lcp |-> h.appended_tail]
            ELSE lcp_walk(h, suffix, k + 1, overflow_checks)

\* A walk that takes the tail of the suffix as the join point whenever no
\* position mismatches.
longest_common_prefix_to_suffix_tail(h, suffix, overflow_checks) ==
    LET l == lcp_walk(h, suffix, 1, overflow_checks)
    IN  IF l.kind = "Ok" /\ l.matched THEN [l EXCEPT !.lcp = tail(suffix)] ELSE l

\* A walk that joins the local log without comparing the terms.
longest_common_prefix_without_terms(h, suffix, overflow_checks) ==
    [kind |-> "Ok", matched |-> TRUE,
     lcp |-> IF h.appended_tail.index <= tail(suffix).index
             THEN h.appended_tail ELSE tail(suffix)]

longest_common_prefix(h, suffix, overflow_checks) ==
    lcp_walk(h, suffix, 1, overflow_checks)

\* A FollowerAppend::new that takes the leader's commit index as it comes,
\* not limited to the range of the message.
FollowerAppend_new_unclamped(h, message) ==
    LET new_log_tail ==
            IF tail(message.suffix).index < h.appended_tail.index
            THEN h.appended_tail ELSE tail(message.suffix)
        c2 == IF message.committed_log_tail < h.committed_tail.index
              THEN h.committed_tail.index ELSE message.committed_log_tail
    IN  [future |-> IF new_log_tail.index = h.appended_tail.index
                    THEN "None" ELSE "SaveLog",
         new_log_tail |-> new_log_tail,
         message |-> [message EXCEPT !.committed_log_tail = c2]]

FollowerAppend_new(h, message) ==
    LET new_log_tail ==
            IF tail(message.suffix).index < h.appended_tail.index
            THEN h.appended_tail ELSE tail(message.suffix)
        c1 == IF tail(message.suffix).index < message.committed_log_tail
              THEN tail(message.suffix).index ELSE message.committed_log_tail
        c2 == IF c1 < h.committed_tail.index THEN h.committed_tail.index ELSE c1
    IN  [future |-> IF new_log_tail.index = h.appended_tail.index
                    THEN "None" ELSE "SaveLog",
         new_log_tail |-> new_log_tail,
         message |-> [message EXCEPT !.committed_log_tail = c2]]

\* handle_non_disjoint_entries that replies with the common prefix of
\* diverged logs without rolling the local log back.
handle_non_disjoint_entries_no_rollback(h, message, overflow_checks) ==
    LET l == longest_common_prefix(h, message.suffix, overflow_checks)
    IN  IF l.kind # "Ok" THEN Handled(l.kind, h, None, <<>>)
        ELSE IF ~l.matched
        THEN Handled("Ok", h, None, <<reply_append_entries(message.header, l.lcp)>>)
        ELSE
            LET s == skip_to(message.suffix, l.lcp.index)
            IN  IF s.kind # "Ok" THEN Handled(s.kind, h, None, <<>>)
                ELSE Handled("Ok", h,
                             NextState("Append", Some(FollowerAppend_new(
                                 h, [message EXCEPT !.suffix = s.suffix]))),
                             <<>>)

handle_non_disjoint_entries(h, message, overflow_checks) ==
    LET l == longest_common_prefix(h, message.suffix, overflow_checks)
    IN  IF l.kind # "Ok" THEN Handled(l.kind, h, None, <<>>)
        ELSE IF ~l.matched
        THEN
            LET r == handle_log_rollbacked(h, l.lcp)
            IN  IF r.kind # "Ok" THEN Handled(r.kind, r.h, None, <<>>)
                ELSE Handled("Ok", r.h, None,
                             <<reply_append_entries(message.header, l.lcp)>>)
        ELSE
            LET s == skip_to(message.suffix, l.lcp.index)
            IN  IF s.kind # "Ok" THEN Handled(s.kind, h, None, <<>>)
                ELSE Handled("Ok", h,
                             NextState("Append", Some(FollowerAppend_new(
                                 h, [message EXCEPT !.suffix = s.suffix]))),
                             <<>>)

\* A handle_entries that lacks the reply to a call that leaves a gap.
handle_entries_without_gap_reply(h, message, overflow_checks) ==
    LET local_tail == h.appended_tail
    IN  IF tail(message.suffix).index < head(h).index
        THEN Handled("Ok", h, None, <<reply_append_entries(message.header, local_tail)>>)
        ELSE
            LET s == IF message.suffix.head.index < head(h).index
                     THEN skip_to(message.suffix, head(h).index)
                     ELSE [kind |-> "Ok", suffix |-> message.suffix]
            IN  IF s.kind # "Ok" THEN Handled(s.kind, h, None, <<>>)
                ELSE handle_non_disjoint_entries(h, [message EXCEPT !.suffix = s.suffix],
                                                 overflow_checks)

handle_entries(h, message, overflow_checks) ==
    LET local_tail == h.appended_tail
    IN  IF tail(message.suffix).index < head(h).index
        THEN Handled("Ok", h, None, <<reply_append_entries(message.header, local_tail)>>)
        ELSE
            LET s == IF message.suffix.head.index < head(h).index
                     THEN skip_to(message.suffix, head(h).index)
                     ELSE [kind |-> "Ok", suffix |-> message.suffix]
            IN  IF s.kind # "Ok" THEN Handled(s.kind, h, None, <<>>)
                ELSE IF local_tail.index < s.suffix.head.index
                THEN Handled("Ok", h, None,
                             <<reply_append_entries(message.header, local_tail)>>)
                ELSE handle_non_disjoint_entries(h, [message EXCEPT !.suffix = s.suffix],
                                                 overflow_checks)

\* An Idle handler that accepts a snapshot while another one is installing.
idle_accepts_snapshot_while_installing(h, inst, message) ==
    ~(message.prefix.tail.index <= h.committed_tail.index)

\* FollowerIdle::handle_message on an InstallSnapshotCast: TRUE when the
\* snapshot is to be installed, FALSE when the message is ignored.
idle_accepts_snapshot(h, inst, message) ==
    IF message.prefix.tail.index <= h.committed_tail.index THEN FALSE
    ELSE IF is_snapshot_installing(inst) THEN FALSE
    ELSE TRUE

\* A handle_message that lacks the busy reply and handles the call as Idle
\* does.
FollowerAppend_handle_message_as_idle(h, message) ==
    IF message.type = "AppendEntriesCall"
    THEN handle_entries(h, message, TRUE)
    ELSE Handled("Ok", h, None, <<>>)

\* FollowerAppend::handle_message.
FollowerAppend_handle_message(h, message) ==
    IF message.type = "AppendEntriesCall"
    THEN Handled("Ok", h, None, <<reply_busy(h, message.header)>>)
    ELSE Handled("Ok", h, None, <<>>)

\* A run_once that records the suffix whatever tail was computed on entry.
FollowerAppend_run_once_always_appends(h, fa) ==
    LET a == handle_log_appended(h, fa.message.suffix)
    IN  IF a.kind # "Ok" THEN Handled(a.kind, a.h, None, <<>>)
        ELSE
            LET c == handle_log_committed(a.h, fa.message.committed_log_tail)
            IN  IF c.kind # "Ok" THEN Handled(c.kind, c.h, None, <<>>)
                ELSE Handled("Ok", c.h, NextState("Idle", None),
                             <<reply_append_entries(fa.message.header,
                                                    tail(fa.message.suffix))>>)

\* FollowerAppend::run_once once the future is ready.
\* A run_once that replies a second time when it completes.
FollowerAppend_run_once_replying_twice(h, fa) ==
    LET a == IF fa.new_log_tail = tail(fa.message.suffix)
             THEN handle_log_appended(h, fa.message.suffix)
             ELSE Outcome("Ok", h)
    IN  IF a.kind # "Ok" THEN Handled(a.kind, a.h, None, <<>>)
        ELSE
            LET c == handle_log_committed(a.h, fa.message.committed_log_tail)
            IN  IF c.kind # "Ok" THEN Handled(c.kind, c.h, None, <<>>)
                ELSE Handled("Ok", c.h, NextState("Idle", None),
                             <<reply_append_entries(fa.message.header,
                                                    tail(fa.message.suffix)),
                               reply_append_entries(fa.message.header,
                                                    tail(fa.message.suffix))>>)

FollowerAppend_run_once(h, fa) ==
    LET a == IF fa.new_log_tail = tail(fa.message.suffix)
             THEN handle_log_appended(h, fa.message.suffix)
             ELSE Outcome("Ok", h)
    IN  IF a.kind # "Ok" THEN Handled(a.kind, a.h, None, <<>>)
        ELSE
            LET c == handle_log_committed(a.h, fa.message.committed_log_tail)
            IN  IF c.kind # "Ok" THEN Handled(c.kind, c.h, None, <<>>)
                ELSE Handled("Ok", c.h, NextState("Idle", None),
                             <<reply_append_entries(fa.message.header,
                                                    tail(fa.message.suffix))>>)

----------------------------------------------------------------------------
(* The inputs of the model. *)

InitialConfig == ClusterConfig_new({"A", "B", "C"})

\* The configurations the entries and snapshots of the history carry.
HistoryConfigs ==
    {InitialConfig, ClusterConfig({"A", "B", "D"}, {"A", "B", "C"}, "CatchUp")}

Positions == {LogPosition(t, i) : t \in Terms, i \in Indices}

\* Noop and Command entries differ in their payload only, which the log
\* history never reads: "Noop" stands for both.
Entries ==
    {LogEntry("Noop", t, NoConfig) : t \in Terms}
    \cup {LogEntry("Config", t, c) : t \in Terms, c \in HistoryConfigs}

\* The entries the suffix operations are given: they read the terms only.
NoopEntries == {LogEntry("Noop", t, NoConfig) : t \in Terms}

SeqsUpTo(S, n) == UNION {[1..k -> S] : k \in 0..n}

\* record_appended reads suffix.head.prev_term only through the tail() of an
\* empty suffix, so the non-empty suffixes are drawn with one head term.
Suffixes ==
    {s \in {LogSuffix(p, es) : p \in Positions, es \in SeqsUpTo(Entries, MaxLen)} :
        /\ tail(s).index <= MaxIndex
        /\ Len(s.entries) > 0 => s.head.prev_term = 0}

----------------------------------------------------------------------------
(* The state of the log history and its initial value. *)

Hist == LogHistory(appended_tail, committed_tail, consumed_tail, records)

SetHistory(h) ==
    /\ Len(h.records) <= MaxRecords
    /\ appended_tail' = h.appended_tail
    /\ committed_tail' = h.committed_tail
    /\ consumed_tail' = h.consumed_tail
    /\ records' = h.records

InitHistory ==
    /\ appended_tail = LogHistory_new(InitialConfig).appended_tail
    /\ committed_tail = LogHistory_new(InitialConfig).committed_tail
    /\ consumed_tail = LogHistory_new(InitialConfig).consumed_tail
    /\ records = LogHistory_new(InitialConfig).records

InitFollower ==
    /\ sub_state = "Idle"
    /\ append = None
    /\ installing = None
    /\ outbox = <<>>
    /\ handled = "Ok"

InitLog ==
    /\ rawlogs = None
    /\ entry_terms = <<>>

InitSync ==
    /\ latest_hearbeat_ack = 0
    /\ last_broadcast_seq_no = 0
    /\ tasks = <<>>
    /\ sent = {}

InitNet ==
    /\ inbox = None
    /\ next_seq_no = 1

InitCluster ==
    /\ config = InitialConfig
    /\ followers = <<>>
    /\ f = <<>>
    /\ values = <<>>
    /\ result = None

----------------------------------------------------------------------------
(* Spec: the log history driven through its public mutators, in any order *)
(* and with every input of the bounded sets.  A call that fails or panics *)
(* leaves behind what the code had changed before it stopped.             *)

RecordAppended ==
    \E suffix \in Suffixes :
        /\ SetHistory(record_appended(Hist, suffix).h)
        /\ UNCHANGED <<follower_vars, cluster_vars, log_vars, sync_vars, net_vars>>

RecordCommitted ==
    \E index \in Indices :
        /\ SetHistory(record_committed(Hist, index).h)
        /\ UNCHANGED <<follower_vars, cluster_vars, log_vars, sync_vars, net_vars>>

RecordConsumed ==
    \E index \in Indices :
        /\ SetHistory(record_consumed(Hist, index).h)
        /\ UNCHANGED <<follower_vars, cluster_vars, log_vars, sync_vars, net_vars>>

RecordRollback ==
    \E new_tail \in Positions :
        /\ SetHistory(record_rollback(Hist, new_tail).h)
        /\ UNCHANGED <<follower_vars, cluster_vars, log_vars, sync_vars, net_vars>>

RecordSnapshotInstalled ==
    \E new_head \in Positions, c \in HistoryConfigs :
        /\ SetHistory(record_snapshot_installed(Hist, new_head, c).h)
        /\ UNCHANGED <<follower_vars, cluster_vars, log_vars, sync_vars, net_vars>>

RecordSnapshotLoaded ==
    \E t \in Positions :
        /\ SetHistory(record_snapshot_loaded(Hist, LogPrefix(t, InitialConfig)).h)
        /\ UNCHANGED <<follower_vars, cluster_vars, log_vars, sync_vars, net_vars>>

Init == InitHistory /\ InitFollower /\ InitCluster /\ InitLog /\ InitSync /\ InitNet

Next ==
    \/ RecordAppended
    \/ RecordCommitted
    \/ RecordConsumed
    \/ RecordRollback
    \/ RecordSnapshotInstalled
    \/ RecordSnapshotLoaded

Spec == Init /\ [][Next]_vars

----------------------------------------------------------------------------
(* SpecFollower: a follower that receives every message of the bounded    *)
(* sets below, in any order.  A step that ends in an error or a panic     *)
(* stops the node.  The Snapshot sub-state and the completion of a        *)
(* snapshot installation are not among the source files: they are         *)
(* modelled from the specification (sections 4.3 and 4.3.2).              *)

MaxSeqNo == 2

Headers == {[seq_no |-> n] : n \in 1..MaxSeqNo}

\* The follower reads the terms of the entries only.
MessageSuffixes ==
    {s \in {LogSuffix(p, es) :
                p \in Positions,
                es \in SeqsUpTo({LogEntry("Noop", t, NoConfig) : t \in Terms}, MaxLen)} :
        tail(s).index <= MaxIndex}

AppendEntriesCalls ==
    {AppendEntriesCall(hd, s, c) : hd \in Headers, s \in MessageSuffixes, c \in Indices}

InstallSnapshotCasts ==
    {InstallSnapshotCast(hd, LogPrefix(t, c)) :
        hd \in Headers, t \in Positions, c \in HistoryConfigs}

\* The effect of a handler's outcome on the node.
Apply(r) ==
    /\ SetHistory(r.h)
    /\ handled' = r.kind
    /\ outbox' = r.replies
    /\ IF r.next = None THEN UNCHANGED <<sub_state, append>>
       ELSE sub_state' = r.next[1].sub_state /\ append' = r.next[1].append

IdleHandleAppendEntries ==
    /\ sub_state = "Idle" /\ handled = "Ok"
    /\ \E message \in AppendEntriesCalls, overflow_checks \in BOOLEAN :
           Apply(handle_entries(Hist, message, overflow_checks))
    /\ UNCHANGED <<installing, cluster_vars, log_vars, sync_vars, net_vars>>

IdleHandleInstallSnapshot ==
    /\ sub_state = "Idle" /\ handled = "Ok"
    /\ \E message \in InstallSnapshotCasts :
           IF idle_accepts_snapshot(Hist, installing, message)
           THEN installing' = Some(message.prefix) /\ sub_state' = "Snapshot"
           ELSE UNCHANGED <<installing, sub_state>>
    /\ outbox' = <<>>
    /\ UNCHANGED <<history_vars, append, handled, cluster_vars, log_vars, sync_vars, net_vars>>

AppendHandleMessage ==
    /\ sub_state = "Append" /\ handled = "Ok"
    /\ \E message \in AppendEntriesCalls \cup InstallSnapshotCasts :
           Apply(FollowerAppend_handle_message(Hist, message))
    /\ UNCHANGED <<installing, cluster_vars, log_vars, sync_vars, net_vars>>

AppendRunOnce ==
    /\ sub_state = "Append" /\ handled = "Ok"
    /\ Apply(FollowerAppend_run_once(Hist, append[1]))
    /\ UNCHANGED <<installing, cluster_vars, log_vars, sync_vars, net_vars>>

SnapshotHandleMessage ==
    /\ sub_state = "Snapshot" /\ handled = "Ok"
    /\ \E message \in AppendEntriesCalls \cup InstallSnapshotCasts :
           outbox' = IF message.type = "AppendEntriesCall"
                     THEN <<reply_busy(Hist, message.header)>> ELSE <<>>
    /\ UNCHANGED <<history_vars, sub_state, append, installing, handled, cluster_vars,
                   log_vars, sync_vars, net_vars>>

SnapshotInstalled ==
    /\ installing # None /\ handled = "Ok"
    /\ LET r == record_snapshot_installed(Hist, installing[1].tail, installing[1].config)
       IN  SetHistory(r.h) /\ handled' = r.kind
    /\ installing' = None
    /\ sub_state' = IF sub_state = "Snapshot" THEN "Idle" ELSE sub_state
    /\ outbox' = <<>>
    /\ UNCHANGED <<append, cluster_vars, log_vars, sync_vars, net_vars>>

NextFollower ==
    \/ IdleHandleAppendEntries
    \/ IdleHandleInstallSnapshot
    \/ AppendHandleMessage
    \/ AppendRunOnce
    \/ SnapshotHandleMessage
    \/ SnapshotInstalled

SpecFollower == Init /\ [][NextFollower]_vars

----------------------------------------------------------------------------
(* SpecMedian: max_of_agreed_value applied to every non-empty vector of   *)
(* the bounded set.                                                       *)

MaxVal == 3
MaxVecLen == 4

Vals == 0..MaxVal

Vecs == UNION {[1..k -> Vals] : k \in 1..MaxVecLen}

Result(op, value) == Some([op |-> op, value |-> value])

InitMedian ==
    /\ InitHistory /\ InitFollower /\ InitLog /\ InitSync /\ InitNet
    /\ config = InitialConfig
    /\ followers = <<>>
    /\ f = <<>>
    /\ values \in Vecs
    /\ result = None

MaxOfAgreedValue ==
    /\ result = None
    /\ result' = Result("max_of_agreed_value", Some(max_of_agreed_value(values)))
    /\ UNCHANGED <<history_vars, follower_vars, config, followers, f, values, log_vars, sync_vars, net_vars>>

NextMedian == MaxOfAgreedValue

SpecMedian == InitMedian /\ [][NextMedian]_vars

----------------------------------------------------------------------------
(* SpecCluster: the consensus queries of a cluster configuration, for     *)
(* every configuration over Nodes (ClusterConfig::with_state builds any   *)
(* of them) and every assignment of values to the nodes.  The value of a  *)
(* query is None when the query panics.                                   *)

Nodes == {"A", "B", "C", "D"}

States == {"Stable", "CatchUp", "Joint"}

Configs(ns) ==
    {ClusterConfig(new, old, state) :
        new \in SUBSET ns, old \in SUBSET ns, state \in States}

InitClusterQueries ==
    /\ InitHistory /\ InitFollower /\ InitLog /\ InitSync /\ InitNet
    /\ config \in Configs(Nodes)
    /\ followers = <<>>
    /\ f \in [Nodes -> Vals]
    /\ values = <<>>
    /\ result = None

ConsensusValue ==
    /\ result' = Result("consensus_value", consensus_value(config, f))
    /\ UNCHANGED <<history_vars, follower_vars, config, followers, f, values, log_vars, sync_vars, net_vars>>

FullConsensusValue ==
    /\ result' = Result("full_consensus_value", full_consensus_value(config, f))
    /\ UNCHANGED <<history_vars, follower_vars, config, followers, f, values, log_vars, sync_vars, net_vars>>

NextCluster ==
    \/ ConsensusValue
    \/ FullConsensusValue

SpecCluster == InitClusterQueries /\ [][NextCluster]_vars

----------------------------------------------------------------------------
(* SpecLeader: the commit queries of a followers manager, for every       *)
(* configuration over LeaderNodes and every progress of its followers.    *)

LeaderNodes == {"A", "B", "C"}

Followers(c) ==
    [members(c) -> {Follower(0, t, 0, s) : t \in Vals, s \in BOOLEAN}]

InitLeader ==
    /\ InitHistory /\ InitFollower /\ InitLog /\ InitSync /\ InitNet
    /\ config \in Configs(LeaderNodes)
    /\ followers \in Followers(config)
    /\ f = <<>>
    /\ values = <<>>
    /\ result = None

CommittedLogTail ==
    /\ result' = Result("committed_log_tail", committed_log_tail(config, followers))
    /\ UNCHANGED <<history_vars, follower_vars, config, followers, f, values, log_vars, sync_vars, net_vars>>

JointCommittedLogTail ==
    /\ result' = Result("joint_committed_log_tail",
                        joint_committed_log_tail(config, followers))
    /\ UNCHANGED <<history_vars, follower_vars, config, followers, f, values, log_vars, sync_vars, net_vars>>

\* The configurations a committed Config entry can carry next: a change of
\* the members that starts, or the next state of the change under way.
NextConfigs(c) ==
    {start_config_change(c, new) : new \in SUBSET LeaderNodes} \cup {to_next_state(c)}

HandleConfigUpdated ==
    \E c \in NextConfigs(config) :
        LET fm == handle_config_updated(FollowersManager(config, followers), c)
        IN  /\ config' = fm.config
            /\ followers' = fm.followers
            /\ result' = Result("handle_config_updated", None)
            /\ UNCHANGED <<history_vars, follower_vars, f, values, log_vars, sync_vars, net_vars>>

NextLeader ==
    \/ CommittedLogTail
    \/ JointCommittedLogTail
    \/ HandleConfigUpdated

SpecLeader == InitLeader /\ [][NextLeader]_vars

----------------------------------------------------------------------------
(* The followers manager of a leader that broadcasts, receives           *)
(* the replies of its followers in any order (stale and repeated ones     *)
(* included), reads its log in the background and follows the changes of  *)
(* the configuration.  The leader's log is LeaderLog throughout, and sent  *)
(* holds what the last step sent: only run_once sends.                    *)

SyncNodes == {"A", "B"}

MaxSyncIndex == 2

\* The leader's log: two entries of term 1.
LeaderLog ==
    record_appended(LogHistory_new(InitialConfig),
                    LogSuffix(LogPosition_default,
                              <<LogEntry("Noop", 1, NoConfig),
                                LogEntry("Noop", 1, NoConfig)>>)).h

\* The replies a follower can send: the header names the sender and the
\* sequence number of the call that is answered.
LeaderReplies ==
    {AppendEntriesReply([sender |-> n, seq_no |-> k], LogPosition(t, i), b) :
        n \in SyncNodes, k \in 1..MaxSeqNo, t \in Terms, i \in 0..MaxSyncIndex,
        b \in BOOLEAN}

\* The replies that can arrive: from a node that has a follower record, to
\* a call that was broadcast.
Arriving ==
    {reply \in LeaderReplies :
        /\ reply.header.sender \in DOMAIN followers
        /\ reply.header.seq_no <= last_broadcast_seq_no}

InitLeaderSync ==
    /\ appended_tail = LeaderLog.appended_tail
    /\ committed_tail = LeaderLog.committed_tail
    /\ consumed_tail = LeaderLog.consumed_tail
    /\ records = LeaderLog.records
    /\ InitFollower /\ InitLog /\ InitSync /\ InitNet
    /\ config \in {ClusterConfig_new(ms) : ms \in (SUBSET SyncNodes) \ {{}}}
    /\ followers = FollowersManager_new(config).followers
    /\ f = <<>>
    /\ values = <<>>
    /\ result = None

\* The leader broadcasts a call with the next sequence number.
SetLastBroadcastSeqNo ==
    /\ last_broadcast_seq_no < MaxSeqNo
    /\ last_broadcast_seq_no' = last_broadcast_seq_no + 1
    /\ sent' = {}
    /\ UNCHANGED <<history_vars, follower_vars, cluster_vars,
                   log_vars, latest_hearbeat_ack, tasks, net_vars>>

HandleAppendEntriesReply ==
    \E reply \in Arriving :
        LET r == handle_append_entries_reply(config, followers, latest_hearbeat_ack,
                                             Hist, reply)
        IN  /\ followers' = r.followers
            /\ latest_hearbeat_ack' = r.latest_hearbeat_ack
            /\ sent' = {}
            /\ UNCHANGED <<history_vars, follower_vars, config, f, values, result,
                           log_vars, last_broadcast_seq_no, tasks, net_vars>>

LogSync ==
    \E reply \in Arriving :
        LET r == log_sync(followers, tasks, last_broadcast_seq_no, Hist, reply)
        IN  /\ followers' = r.followers
            /\ tasks' = r.tasks
            /\ sent' = {}
            /\ UNCHANGED <<history_vars, follower_vars, config, f, values, result,
                           log_vars, latest_hearbeat_ack, last_broadcast_seq_no, net_vars>>

\* run_once with the read tasks of some of the nodes ready.
RunOnce ==
    \E dones \in (SUBSET (DOMAIN tasks)) \ {{}} :
        LET r == FollowersManager_run_once(tasks, dones)
        IN  /\ tasks' = r.tasks
            /\ sent' = r.sent
            /\ UNCHANGED <<history_vars, follower_vars, cluster_vars,
                           log_vars, latest_hearbeat_ack, last_broadcast_seq_no, net_vars>>

\* A Config entry commits: a change of the members among SyncNodes starts,
\* or the change under way moves to its next state.
SyncConfigUpdated ==
    \E c \in {start_config_change(config, new) : new \in (SUBSET SyncNodes) \ {{}}}
               \cup {to_next_state(config)} :
        LET fm == handle_config_updated(FollowersManager(config, followers), c)
        IN  /\ config' = fm.config
            /\ followers' = fm.followers
            /\ sent' = {}
            /\ UNCHANGED <<history_vars, follower_vars, f, values, result,
                           log_vars, latest_hearbeat_ack, last_broadcast_seq_no,
                           tasks, net_vars>>

\* SpecSync: the replies and the background reads under a configuration
\* that does not change.
NextSync ==
    \/ SetLastBroadcastSeqNo
    \/ HandleAppendEntriesReply
    \/ LogSync
    \/ RunOnce

SpecSync == InitLeaderSync /\ [][NextSync]_vars

\* SpecAck: the acknowledged heartbeats while the configuration changes.
NextAck ==
    \/ SetLastBroadcastSeqNo
    \/ HandleAppendEntriesReply
    \/ SyncConfigUpdated

SpecAck == InitLeaderSync /\ [][NextAck]_vars

\* SpecTasks: the background reads while the configuration changes.
NextTasks ==
    \/ SetLastBroadcastSeqNo
    \/ LogSync
    \/ RunOnce
    \/ SyncConfigUpdated

SpecTasks == InitLeaderSync /\ [][NextTasks]_vars

-----------------------------------------------------------------------------
(* SpecDiscover: a leader whose log is LeaderLog and one follower, the     *)
(* node DiscoverNode, whose log is any log of at most MaxFollowerLen       *)
(* entries.  inbox holds the call on its way to the follower and outbox    *)
(* the replies on their way to the leader; no message is lost.  The        *)
(* heartbeat of the leader, the sequence numbers of its calls and the      *)
(* order in which it handles a reply are not among the source files: they  *)
(* are modelled from the specification (sections 4.4, 5 and 6).  load_log  *)
(* is the one of MockIo (src/main.rs).                                     *)

DiscoverNode == "A"

MaxFollowerLen == 3

\* The highest sequence number a call of the leader carries.
MaxDiscoverSeqNo == 12

\* The heartbeat timer fires while the follower appends only for the calls
\* up to this sequence number.
MaxBusySeqNo == 3

\* The persisted log of the leader: the entries LeaderLog records.
LeaderRawlogs ==
    LogSuffix(LogPosition_default,
              <<LogEntry("Noop", 1, NoConfig), LogEntry("Noop", 1, NoConfig)>>)

\* MockIo::load_log(start, Some(end)) of a node without a snapshot: the
\* slice of the raw log, or a panic.
load_log(raw, start, end) ==
    IF start > end THEN [kind |-> "panic", suffix |-> raw]
    ELSE LET sliced == slice(raw, start, end)
         IN  IF sliced.kind = "Ok" THEN sliced
             ELSE [kind |-> "panic", suffix |-> raw]

\* The Log Matching property of Raft between the entries of two logs: where
\* both hold an entry of the same term at the same index, they hold the
\* same entries up to it.
LogMatching(es, leader_es) ==
    \A i \in 1..Len(es) :
        (i <= Len(leader_es) /\ es[i].term = leader_es[i].term)
            => \A j \in 1..i : es[j].term = leader_es[j].term

\* The logs the follower starts with: what record_appended makes of every
\* sequence of at most MaxFollowerLen entries that it appends to an empty
\* log without an error and that a node of the leader's cluster can hold.
FollowerLogs ==
    {r.h : r \in {a \in {record_appended(LogHistory_new(InitialConfig),
                                         LogSuffix(LogPosition_default, es)) :
                              es \in {x \in SeqsUpTo(NoopEntries, MaxFollowerLen) :
                                         LogMatching(x, LeaderRawlogs.entries)}} :
                     a.kind = "Ok"}}

\* The header of a reply: the sender is the local node and the sequence
\* number the one of the call.
reply_header(node, header) == [sender |-> node, seq_no |-> header.seq_no]

replies_of(node, replies) ==
    [k \in 1..Len(replies) |->
        [replies[k] EXCEPT !.header = reply_header(node, replies[k].header)]]

InitDiscover ==
    /\ \E h \in FollowerLogs :
           /\ appended_tail = h.appended_tail
           /\ committed_tail = h.committed_tail
           /\ consumed_tail = h.consumed_tail
           /\ records = h.records
    /\ InitFollower /\ InitLog /\ InitSync /\ InitNet
    /\ config = ClusterConfig_new({DiscoverNode})
    /\ followers = FollowersManager_new(config).followers
    /\ f = <<>>
    /\ values = <<>>
    /\ result = None

\* Nothing is on its way between the leader and the follower.
Quiescent ==
    /\ inbox = None /\ outbox = <<>> /\ tasks = <<>> /\ sub_state = "Idle"

\* The leader sends a call with the next sequence number.
SendCall(suffix) ==
    /\ inbox' = Some(AppendEntriesCall([seq_no |-> next_seq_no], suffix,
                                       LeaderLog.committed_tail.index))
    /\ next_seq_no' = next_seq_no + 1

\* The heartbeat timer of the leader fires, while nothing is on its way or
\* while the follower appends: the leader broadcasts the empty suffix at
\* the tail of its log.
DiscoverHeartbeat ==
    /\ inbox = None /\ handled = "Ok"
    /\ next_seq_no <= MaxDiscoverSeqNo
    /\ \/ Quiescent
       \/ sub_state = "Append" /\ next_seq_no <= MaxBusySeqNo
    /\ SendCall(LogSuffix(LeaderLog.appended_tail, <<>>))
    /\ last_broadcast_seq_no' = next_seq_no
    /\ sent' = {}
    /\ UNCHANGED <<history_vars, follower_vars, cluster_vars, log_vars,
                   latest_hearbeat_ack, tasks>>

\* The effect of a handler's outcome on the follower: its replies are on
\* their way to the leader.
DiscoverApply(r) ==
    /\ appended_tail' = r.h.appended_tail
    /\ committed_tail' = r.h.committed_tail
    /\ consumed_tail' = r.h.consumed_tail
    /\ records' = r.h.records
    /\ handled' = r.kind
    /\ outbox' = outbox \o replies_of(DiscoverNode, r.replies)
    /\ IF r.next = None THEN UNCHANGED <<sub_state, append>>
       ELSE sub_state' = r.next[1].sub_state /\ append' = r.next[1].append

\* The call arrives at the follower.
DiscoverReceiveCall ==
    /\ inbox # None /\ handled = "Ok"
    /\ IF sub_state = "Idle"
       THEN \E overflow_checks \in BOOLEAN :
                DiscoverApply(handle_entries(Hist, inbox[1], overflow_checks))
       ELSE DiscoverApply(FollowerAppend_handle_message(Hist, inbox[1]))
    /\ inbox' = None
    /\ UNCHANGED <<installing, cluster_vars, log_vars, sync_vars, next_seq_no>>

\* The write of the follower completes.
DiscoverAppendRunOnce ==
    /\ sub_state = "Append" /\ handled = "Ok"
    /\ DiscoverApply(FollowerAppend_run_once(Hist, append[1]))
    /\ UNCHANGED <<installing, cluster_vars, log_vars, sync_vars, net_vars>>

\* A reply arrives at the leader: handle_append_entries_reply, then
\* log_sync.
DiscoverReceiveReply ==
    /\ outbox # <<>>
    /\ LET reply == Head(outbox)
           r == handle_append_entries_reply(config, followers, latest_hearbeat_ack,
                                            LeaderLog, reply)
           s == log_sync(r.followers, tasks, last_broadcast_seq_no, LeaderLog, reply)
       IN  /\ followers' = s.followers
           /\ latest_hearbeat_ack' = r.latest_hearbeat_ack
           /\ tasks' = s.tasks
    /\ outbox' = Tail(outbox)
    /\ sent' = {}
    /\ UNCHANGED <<history_vars, sub_state, append, installing, handled,
                   config, f, values, result, log_vars, last_broadcast_seq_no,
                   net_vars>>

\* run_once of the leader with the read of the follower's task ready: the
\* log that was read is sent.
DiscoverRunOnce ==
    /\ inbox = None /\ DiscoverNode \in DOMAIN tasks
    /\ next_seq_no <= MaxDiscoverSeqNo
    /\ LET r == FollowersManager_run_once(tasks, {DiscoverNode})
           l == load_log(LeaderRawlogs, tasks[DiscoverNode].start,
                         tasks[DiscoverNode].end)
       IN  /\ l.kind = "Ok"
           /\ tasks' = r.tasks
           /\ sent' = r.sent
           /\ SendCall(l.suffix)
    /\ UNCHANGED <<history_vars, follower_vars, cluster_vars, log_vars,
                   latest_hearbeat_ack, last_broadcast_seq_no>>

NextDiscover ==
    \/ DiscoverHeartbeat
    \/ DiscoverReceiveCall
    \/ DiscoverAppendRunOnce
    \/ DiscoverReceiveReply
    \/ DiscoverRunOnce

\* Every call and every reply is delivered, every write of the follower
\* completes, the leader polls its reads and its timer fires.
FairDiscover ==
    /\ WF_vars(DiscoverHeartbeat)
    /\ WF_vars(DiscoverReceiveCall)
    /\ WF_vars(DiscoverAppendRunOnce)
    /\ WF_vars(DiscoverReceiveReply)
    /\ WF_vars(DiscoverRunOnce)

SpecDiscover == InitDiscover /\ [][NextDiscover]_vars /\ FairDiscover

-----------------------------------------------------------------------------
(* A log history built by record_appended calls alone.  entry_terms holds *)
(* the terms of the entries of the log the appended suffixes describe:    *)
(* entry_terms[i] is the term of the entry that ends at position i.  A    *)
(* suffix that overlaps the log repeats the entries the log has there, as *)
(* record_appended assumes when it skips the overlap.                     *)

MaxAppendIndex == 3

AppendSuffixes ==
    {s \in {LogSuffix(p, es) : p \in {LogPosition(t, i) : t \in Terms, i \in 0..MaxAppendIndex},
                               es \in SeqsUpTo(Entries, MaxLen)} :
        tail(s).index <= MaxAppendIndex}

\* The term the log has just before position index.
PrevTermAt(terms, index) == IF index = 0 THEN 0 ELSE terms[index]

\* suffix starts inside the log, names the term the log has before its
\* head, and repeats the entries of the log wherever it overlaps it.
RepeatsLog(terms, suffix) ==
    /\ suffix.head.index <= Len(terms)
    /\ suffix.head.prev_term = PrevTermAt(terms, suffix.head.index)
    /\ \A i \in 1..Len(suffix.entries) :
           suffix.head.index + i <= Len(terms)
               => term(suffix.entries[i]) = terms[suffix.head.index + i]

\* The log after the suffix is written at its head.
WriteLog(terms, suffix) ==
    SubSeq(terms, 1, suffix.head.index)
        \o [i \in 1..Len(suffix.entries) |-> term(suffix.entries[i])]

AppendSuffix(suffix) ==
    /\ RepeatsLog(entry_terms, suffix)
    /\ LET r == record_appended(Hist, suffix)
       IN  /\ r.kind # "panic"
           /\ Len(r.h.records) <= MaxAppendIndex + 1
           /\ appended_tail' = r.h.appended_tail
           /\ records' = r.h.records
           /\ UNCHANGED <<committed_tail, consumed_tail>>
           /\ entry_terms' = IF r.kind = "Ok" THEN WriteLog(entry_terms, suffix)
                             ELSE entry_terms
    /\ UNCHANGED <<follower_vars, cluster_vars, rawlogs, sync_vars, net_vars>>

AppendAtTail ==
    \E suffix \in AppendSuffixes :
        suffix.head.index = appended_tail.index /\ AppendSuffix(suffix)

AppendOverlapping ==
    \E suffix \in AppendSuffixes :
        suffix.head.index < appended_tail.index /\ AppendSuffix(suffix)

NextAppend ==
    \/ AppendAtTail
    \/ AppendOverlapping

SpecAppend == Init /\ [][NextAppend]_vars

-----------------------------------------------------------------------------
(* A persisted log suffix: MockIo saves suffixes into rawlogs, and the    *)
(* suffix kept there is skipped forward.  result holds the operation      *)
(* called last and the kind of its outcome; a panic ends the behaviour.   *)

MaxSuffixLen == 3

SuffixInputs ==
    {LogSuffix(p, es) : p \in Positions, es \in SeqsUpTo(NoopEntries, MaxLen)}

Panicked == result # None /\ result[1].value = "panic"

SaveLogSuffix ==
    /\ ~Panicked
    /\ \E suffix \in SuffixInputs :
           LET r == save_log_suffix(rawlogs, suffix)
           IN  /\ Len(r.rawlogs[1].entries) <= MaxSuffixLen
               /\ rawlogs' = r.rawlogs
               /\ result' = Result("save_log_suffix", r.kind)
    /\ UNCHANGED <<history_vars, follower_vars, config, followers, f, values,
                   entry_terms, sync_vars, net_vars>>

SkipTo ==
    /\ ~Panicked
    /\ rawlogs # None
    /\ \E new_head \in 0..(MaxIndex + MaxSuffixLen + 1) :
           LET r == skip_to(rawlogs[1], new_head)
           IN  /\ rawlogs' = Some(r.suffix)
               /\ result' = Result("skip_to", r.kind)
    /\ UNCHANGED <<history_vars, follower_vars, config, followers, f, values,
                   entry_terms, sync_vars, net_vars>>

Truncate ==
    /\ ~Panicked
    /\ rawlogs # None
    /\ \E new_tail \in 0..(MaxIndex + MaxSuffixLen + 1) :
           LET r == truncate(rawlogs[1], new_tail)
           IN  /\ rawlogs' = Some(r.suffix)
               /\ result' = Result("truncate", r.kind)
    /\ UNCHANGED <<history_vars, follower_vars, config, followers, f, values,
                   entry_terms, sync_vars, net_vars>>

Slice ==
    /\ ~Panicked
    /\ rawlogs # None
    /\ \E start \in 0..(MaxIndex + MaxSuffixLen + 1),
          end \in 0..(MaxIndex + MaxSuffixLen + 1) :
           result' = Result("slice", slice(rawlogs[1], start, end).kind)
    /\ UNCHANGED <<history_vars, follower_vars, config, followers, f, values,
                   rawlogs, entry_terms, sync_vars, net_vars>>

NextSuffix ==
    \/ SaveLogSuffix
    \/ SkipTo
    \/ Truncate
    \/ Slice

SpecSuffix == Init /\ [][NextSuffix]_vars

-----------------------------------------------------------------------------
(* The changes of a cluster configuration: a configuration made by        *)
(* ClusterConfig::new is taken through start_config_change and            *)
(* to_next_state.  result holds the operation called last and the         *)
(* configuration it was called on.                                        *)

ConfigNodes == {"A", "B", "C"}

InitConfig ==
    /\ InitHistory /\ InitFollower /\ InitLog /\ InitSync /\ InitNet
    /\ config \in {ClusterConfig_new(ms) : ms \in (SUBSET ConfigNodes) \ {{}}}
    /\ followers = <<>>
    /\ f = <<>>
    /\ values = <<>>
    /\ result = None

StartConfigChange ==
    \E new \in SUBSET ConfigNodes :
        /\ config' = start_config_change(config, new)
        /\ result' = Result("start_config_change", Some(config))
        /\ UNCHANGED <<history_vars, follower_vars, followers, f, values, log_vars, sync_vars, net_vars>>

ToNextState ==
    /\ config' = to_next_state(config)
    /\ result' = Result("to_next_state", Some(config))
    /\ UNCHANGED <<history_vars, follower_vars, followers, f, values, log_vars, sync_vars, net_vars>>

NextConfig ==
    \/ StartConfigChange
    \/ ToNextState

SpecConfig == InitConfig /\ [][NextConfig]_vars

----------------------------------------------------------------------------
(* Properties of the log history, stated over Spec. *)

\* C1: after any sequence of mutator calls from LogHistory::new,
\* consumed_tail.index <= committed_tail.index <= appended_tail.index.
C1_TailsOrdered ==
    /\ consumed_tail.index <= committed_tail.index
    /\ committed_tail.index <= appended_tail.index

\* C2: over any sequence of operations on the log history, the calls that
\* fail included, neither committed_tail.index nor consumed_tail.index ever
\* decreases.
C2_CommittedConsumedNeverDecrease ==
    [][/\ committed_tail.index <= committed_tail'.index
       /\ consumed_tail.index <= consumed_tail'.index]_vars

\* Both tails have advanced, and a call that asks for less than either of
\* them fails.
C2_Witness ==
    /\ committed_tail.index > 0
    /\ consumed_tail.index > 0
    /\ record_committed(Hist, 0).kind = "Other"
    /\ record_consumed(Hist, 0).kind = "Other"

\* The step from the current history to the next one is a successful
\* record_rollback.
IsRollbackStep ==
    \E new_tail \in Positions :
        /\ record_rollback(Hist, new_tail).kind = "Ok"
        /\ appended_tail' = record_rollback(Hist, new_tail).h.appended_tail
        /\ records' = record_rollback(Hist, new_tail).h.records
        /\ UNCHANGED <<committed_tail, consumed_tail>>

\* C9: appended_tail.index never decreases except through a successful
\* record_rollback.
C9_AppendedTailRetreatsByRollbackOnly ==
    [][appended_tail.index <= appended_tail'.index \/ IsRollbackStep]_vars

\* The step from the current history to the next one is a successful
\* record_snapshot_installed whose new head lies beyond the consumed tail.
IsInstallBeyondConsumedStep ==
    \E new_head \in Positions, c \in HistoryConfigs :
        /\ consumed_tail.index < new_head.index
        /\ record_snapshot_installed(Hist, new_head, c).kind = "Ok"
        /\ records' = record_snapshot_installed(Hist, new_head, c).h.records
        /\ UNCHANGED consumed_tail

\* C10, as the code has it: head().index <= committed_tail.index in every
\* state, and every step keeps head().index <= consumed_tail.index except a
\* successful record_snapshot_installed whose new head lies beyond the
\* consumed tail, which leaves the consumed tail behind the new head.
C10_HeadBelowConsumedExceptInstall ==
    /\ [](records[1].head.index <= committed_tail.index)
    /\ [][records[1].head.index <= consumed_tail.index
            => \/ records'[1].head.index <= consumed_tail'.index
               \/ IsInstallBeyondConsumedStep]_vars

\* A snapshot has been installed and the consumed tail has caught up with
\* its head.
C10_Witness ==
    /\ records[1].head.index > 0
    /\ records[1].head.index <= consumed_tail.index

\* C10 as stated: after every mutator call, record_snapshot_installed
\* included, head().index <= consumed_tail.index.
C10_HeadBelowConsumed == records[1].head.index <= consumed_tail.index

----------------------------------------------------------------------------
(* Properties of the follower, stated over SpecFollower. *)

\* The records of h that begin at or before index i, by their place.
RecordsUpTo(h, i) == {k \in 1..Len(h.records) : h.records[k].head.index <= i}

\* The prev_term of the local record that contains index i.
LocalPrevTerm(h, i) ==
    LET k == CHOOSE k \in RecordsUpTo(h, i) : \A j \in RecordsUpTo(h, i) : j <= k
    IN  h.records[k].head.prev_term

\* The suffix of a call after handle_entries has cut it at the local head.
Adjusted(h, message) ==
    IF message.suffix.head.index < head(h).index
    THEN skip_to(message.suffix, head(h).index).suffix
    ELSE message.suffix

\* The suffix of the call overlaps the local log.
Overlaps(h, message) ==
    /\ head(h).index <= tail(message.suffix).index
    /\ Adjusted(h, message).head.index <= h.appended_tail.index

\* The k-th position of the suffix is the first one whose prev_term differs
\* from that of the local record containing its index: every earlier
\* position agrees with the local log and lies before the local tail.
DivergesAt(h, suffix, k) ==
    LET ps == positions(suffix)
    IN  /\ k \in 1..Len(ps)
        /\ RecordsUpTo(h, ps[k].index) # {}
        /\ ps[k].prev_term # LocalPrevTerm(h, ps[k].index)
        /\ \A j \in 1..(k - 1) :
               /\ RecordsUpTo(h, ps[j].index) # {}
               /\ ps[j].prev_term = LocalPrevTerm(h, ps[j].index)
               /\ ps[j].index # h.appended_tail.index

\* The handler has rolled the log h back to new_tail, replied to the call
\* with new_tail, stayed in Idle and returned no error.
RolledBackTo(h, message, r, new_tail) ==
    /\ r.kind = "Ok"
    /\ r.next = None
    /\ r.replies = <<[header |-> message.header, log_tail |-> new_tail, busy |-> FALSE]>>
    /\ r.h.appended_tail = new_tail
    /\ r.h.committed_tail = h.committed_tail
    /\ r.h.consumed_tail = h.consumed_tail
    /\ Len(r.h.records) <= Len(h.records)
    /\ r.h.records = SubSeq(h.records, 1, Len(r.h.records))
    /\ \A k \in 1..Len(h.records) :
           k <= Len(r.h.records) <=> h.records[k].head.index <= new_tail.index

\* The handler has failed, with an error or a panic: no reply, no change of
\* the log, no change of sub-state.
FailedUntouched(h, r) ==
    /\ r.kind # "Ok"
    /\ r.next = None
    /\ r.replies = <<>>
    /\ r.h = h

\* The example of a divergence: local entries of terms 1, 1, 2 at indices
\* 1..3, and a call whose suffix has head (1, 2) and two entries of term 3.
S5_local ==
    record_appended(LogHistory_new(InitialConfig),
                    LogSuffix(LogPosition(0, 0),
                              <<LogEntry("Noop", 1, NoConfig), LogEntry("Noop", 1, NoConfig),
                                LogEntry("Noop", 2, NoConfig)>>)).h

S5_message ==
    AppendEntriesCall([seq_no |-> 1],
                      LogSuffix(LogPosition(1, 2),
                                <<LogEntry("Noop", 3, NoConfig), LogEntry("Noop", 3, NoConfig)>>),
                      0)

S5_RollsBack ==
    /\ S5_local.appended_tail = LogPosition(2, 3)
    /\ DivergesAt(S5_local, S5_message.suffix, 2)
    /\ \A overflow_checks \in BOOLEAN :
           RolledBackTo(S5_local, S5_message,
                        handle_entries(S5_local, S5_message, overflow_checks),
                        LogPosition(1, 2))

\* C3, as the code has it: when Idle handles an AppendEntriesCall whose
\* suffix overlaps the local log and the walk finds the first position
\* (prev_term, index) that differs from the local record containing index,
\* then, provided index >= 1 and index - 1 >= committed_tail.index, the
\* follower rolls back to {prev_term of the record containing index - 1,
\* index - 1}, replies with that tail, stays Idle and returns no error;
\* otherwise the handler fails (an error, or a panic at index 0 with
\* overflow checks) and changes nothing.  The example of terms 1, 1, 2
\* against head (1, 2) with two entries of term 3 rolls back to (1, 2).
C3_DivergenceRollsBackUncommitted ==
    /\ S5_RollsBack
    /\ (sub_state = "Idle" /\ handled = "Ok") =>
        \A message \in AppendEntriesCalls, overflow_checks \in BOOLEAN :
            Overlaps(Hist, message) =>
                LET suffix == Adjusted(Hist, message)
                    r == handle_entries(Hist, message, overflow_checks)
                IN  \A k \in 1..Len(positions(suffix)) :
                        DivergesAt(Hist, suffix, k) =>
                            LET index == positions(suffix)[k].index
                            IN  IF index >= 1 /\ index - 1 >= committed_tail.index
                                THEN RolledBackTo(Hist, message, r,
                                         LogPosition(LocalPrevTerm(Hist, index - 1),
                                                     index - 1))
                                ELSE FailedUntouched(Hist, r)

\* An Idle follower holds an uncommitted entry, and some call diverges from
\* it at that entry: handling the call shortens the local log.
C3_Witness ==
    /\ sub_state = "Idle" /\ handled = "Ok"
    /\ committed_tail.index < appended_tail.index
    /\ \E message \in AppendEntriesCalls :
           /\ Overlaps(Hist, message)
           /\ \E k \in 1..Len(positions(Adjusted(Hist, message))) :
                  /\ DivergesAt(Hist, Adjusted(Hist, message), k)
                  /\ positions(Adjusted(Hist, message))[k].index - 1 >= committed_tail.index
           /\ handle_entries(Hist, message, TRUE).h.appended_tail.index
                  < appended_tail.index

\* The calls whose suffix starts at a position a log can have: the term
\* before index 0 is 0.
WellFormedCalls ==
    {m \in AppendEntriesCalls :
        m.suffix.head.index = 0 => m.suffix.head.prev_term = 0}

\* C3 as stated: every divergence the walk finds, in a call whose suffix
\* overlaps the local log, ends with the log rolled back to the position
\* before it, a reply with that tail, no error and the follower in Idle.
C3_DivergenceAlwaysRollsBack ==
    (sub_state = "Idle" /\ handled = "Ok") =>
        \A message \in WellFormedCalls, overflow_checks \in BOOLEAN :
            Overlaps(Hist, message) =>
                LET suffix == Adjusted(Hist, message)
                    r == handle_entries(Hist, message, overflow_checks)
                IN  \A k \in 1..Len(positions(suffix)) :
                        DivergesAt(Hist, suffix, k) =>
                            /\ positions(suffix)[k].index >= 1
                            /\ RolledBackTo(Hist, message, r,
                                   LogPosition(
                                       LocalPrevTerm(Hist, positions(suffix)[k].index - 1),
                                       positions(suffix)[k].index - 1))

\* C4: in the Append sub-state every AppendEntriesCall is answered with one
\* busy reply and not processed, and an InstallSnapshotCast is not processed
\* either: every step that leaves the follower in Append leaves the log
\* history, the pending message and the snapshot being installed as they
\* were.
C4_AppendRepliesBusy ==
    /\ []((sub_state = "Append" /\ handled = "Ok") =>
            \A message \in AppendEntriesCalls \cup InstallSnapshotCasts :
                LET r == FollowerAppend_handle_message(Hist, message)
                IN  /\ r.kind = "Ok"
                    /\ r.h = Hist
                    /\ r.next = None
                    /\ IF message.type = "AppendEntriesCall"
                       THEN /\ Len(r.replies) = 1
                            /\ r.replies[1].header = message.header
                            /\ r.replies[1].busy
                       ELSE r.replies = <<>>)
    /\ [][(sub_state = "Append" /\ sub_state' = "Append" /\ handled' = "Ok") =>
            UNCHANGED <<history_vars, append, installing>>]_vars

\* A follower in Append has just answered a call with a busy reply.
C4_Witness ==
    /\ sub_state = "Append"
    /\ Len(outbox) = 1
    /\ outbox[1].busy

----------------------------------------------------------------------------
(* Properties of the consensus arithmetic, stated over SpecMedian,       *)
(* SpecCluster and SpecLeader.                                            *)

\* x is a value that more than half of the members of set have reached.
Supported(set, fn, x) ==
    2 * Cardinality({m \in set : x <= fn[m]}) > Cardinality(set)

\* The greatest of the members' values that a majority of set supports.
Agreed(set, fn) ==
    CHOOSE x \in {fn[m] : m \in set} :
        /\ Supported(set, fn, x)
        /\ \A y \in {fn[m] : m \in set} : Supported(set, fn, y) => y <= x

Least(a, b) == IF a <= b THEN a ELSE b

\* The examples of a majority (S1) and of a joint consensus (S6).
S1_Config == ClusterConfig_new({"A", "B", "C"})

S6_Config == ClusterConfig({"A", "B", "C"}, {"A", "D", "E"}, "Joint")

FiveNodes(a, b, c, d, e) == [n \in {"A", "B", "C", "D", "E"} |->
    CASE n = "A" -> a [] n = "B" -> b [] n = "C" -> c [] n = "D" -> d [] n = "E" -> e]

C5_Examples ==
    /\ consensus_value(S1_Config, FiveNodes(5, 5, 5, 0, 0)) = Some(5)
    /\ consensus_value(S1_Config, FiveNodes(5, 5, 0, 0, 0)) = Some(5)
    /\ consensus_value(S1_Config, FiveNodes(5, 0, 0, 0, 0)) = Some(0)
    /\ consensus_value(S6_Config, FiveNodes(10, 10, 10, 5, 5)) = Some(5)
    /\ consensus_value(S6_Config, FiveNodes(10, 10, 10, 10, 5)) = Some(10)

\* C5: for every f and every configuration whose voting sets are not empty,
\* consensus_value(f) is the majority-agreed maximum over new in Stable,
\* over old alone in CatchUp (the values of the other members do not change
\* it), and the lesser of the two in Joint; the examples S1 and S6 give 5,
\* 5, 0 and 5, 10.
C5_ConsensusValue ==
    /\ C5_Examples
    /\ (result # None /\ result[1].op = "consensus_value") =>
        LET value == result[1].value
        IN  /\ (config.state = "Stable" /\ config.new # {}) =>
                   value = Some(Agreed(config.new, f))
            /\ (config.state = "CatchUp" /\ config.old # {}) =>
                   /\ value = Some(Agreed(config.old, f))
                   /\ \A g \in [Nodes -> Vals] :
                          (\A m \in config.old : g[m] = f[m]) =>
                              consensus_value(config, g) = value
            /\ (config.state = "Joint" /\ config.new # {} /\ config.old # {}) =>
                   value = Some(Least(Agreed(config.new, f), Agreed(config.old, f)))

\* A Joint configuration whose old side agrees on less than its new side
\* has been asked for its consensus value, and the old side has decided it.
C5_Witness ==
    /\ result # None /\ result[1].op = "consensus_value"
    /\ config.new # {} /\ config.old # {}
    /\ config.state = "Joint"
    /\ Agreed(config.old, f) < Agreed(config.new, f)
    /\ result[1].value = Some(Agreed(config.old, f))

\* C6: max_of_agreed_value(V) is the greatest x in V such that at least
\* majority(|V|) elements v of V satisfy x <= v, where majority(n) = 1 + n/2:
\* 1, 2, 2, 3, 3, 4, 4, 5, 5 for n = 1..9.
C6_MaxOfAgreedValue ==
    /\ <<majority(1), majority(2), majority(3), majority(4), majority(5),
         majority(6), majority(7), majority(8), majority(9)>>
           = <<1, 2, 2, 3, 3, 4, 4, 5, 5>>
    /\ result # None =>
        LET need == 1 + (Len(values) \div 2)
            enough(x) == Cardinality({i \in 1..Len(values) : x <= values[i]}) >= need
            x == result[1].value[1]
        IN  /\ \E i \in 1..Len(values) : values[i] = x
            /\ enough(x)
            /\ \A i \in 1..Len(values) : enough(values[i]) => values[i] <= x

\* The function has been applied to a vector of even length that is not
\* sorted, and its value is neither the least nor the greatest element.
C6_Witness ==
    /\ result # None
    /\ Len(values) = 4
    /\ values[1] > values[2]
    /\ \E i \in 1..4 : values[i] < result[1].value[1]
    /\ \E i \in 1..4 : values[i] > result[1].value[1]

\* C7: full_consensus_value(f) is consensus_value(f) in Stable; in CatchUp
\* and in Joint it is the lesser of the agreed maxima over new and over old,
\* so that more than half of new and more than half of old support it, and
\* joint_committed_log_tail is that value for the followers' log tails.
C7_FullConsensusValue ==
    (result # None /\ result[1].op = "full_consensus_value") =>
        LET value == result[1].value
        IN  /\ config.state = "Stable" => value = consensus_value(config, f)
            /\ (config.state # "Stable" /\ config.new # {} /\ config.old # {}) =>
                   /\ value = Some(Least(Agreed(config.new, f), Agreed(config.old, f)))
                   /\ Supported(config.new, f, value[1])
                   /\ Supported(config.old, f, value[1])
            /\ joint_committed_log_tail(
                   config, [n \in Nodes |-> Follower(0, f[n], 0, TRUE)]) = value

\* A CatchUp configuration has been asked for its full consensus value, and
\* the new side holds it below what the old side alone agrees on.
C7_Witness ==
    /\ result # None /\ result[1].op = "full_consensus_value"
    /\ config.state = "CatchUp"
    /\ config.new # {} /\ config.old # {}
    /\ Agreed(config.new, f) < Agreed(config.old, f)
    /\ result[1].value = Some(Agreed(config.new, f))

\* The followers of set that are synced and have log_tail at or beyond x
\* are more than half of set.
SyncedMajority(set, x) ==
    2 * Cardinality({n \in set : followers[n].synced /\ x <= followers[n].log_tail})
        > Cardinality(set)

\* C8: committed_log_tail() is config.consensus_value over g(n) =
\* followers[n].log_tail if followers[n].synced, else 0; so an index above 0
\* is reported only when a majority of each voting set is synced with
\* log_tail at or beyond it.
C8_CommittedLogTail ==
    (result # None /\ result[1].op = "committed_log_tail") =>
        LET value == result[1].value
            g == [n \in members(config) |->
                     IF followers[n].synced THEN followers[n].log_tail ELSE 0]
        IN  /\ value = consensus_value(config, g)
            /\ (value # None /\ value[1] > 0) =>
                   /\ config.state \in {"Stable", "Joint"} =>
                          SyncedMajority(config.new, value[1])
                   /\ config.state \in {"CatchUp", "Joint"} =>
                          SyncedMajority(config.old, value[1])

\* The leader has asked for the committed tail while a follower that is not
\* synced holds a log_tail that would have raised it.
C8_Witness ==
    /\ result # None /\ result[1].op = "committed_log_tail"
    /\ result[1].value # None
    /\ \E n \in members(config) : ~followers[n].synced /\ followers[n].log_tail > 0
    /\ consensus_value(config, [n \in members(config) |-> followers[n].log_tail]) # None
    /\ result[1].value[1]
           < consensus_value(config,
                 [n \in members(config) |-> followers[n].log_tail])[1]

-----------------------------------------------------------------------------
(* Properties of the records of the log history, stated over Spec. *)

\* C11: in every reachable LogHistory state the records are non-empty and
\* their head.index values strictly increase from front to back.
C11_RecordsStrictlyIncreasing ==
    /\ Len(records) >= 1
    /\ \A i \in 1..(Len(records) - 1) :
           records[i].head.index < records[i + 1].head.index

NonDecreasingFrom(recs, k) ==
    \A i \in k..(Len(recs) - 1) :
        recs[i].head.prev_term <= recs[i + 1].head.prev_term

\* C12: in every reachable LogHistory state the head.prev_term values of the
\* records never decrease from front to back, and a successful
\* record_appended pushes no record whose prev_term is lower than the
\* prev_term of the record before it, the previous last record included.
C12_PrevTermsNonDecreasing ==
    /\ NonDecreasingFrom(records, 1)
    /\ \A suffix \in Suffixes :
           LET r == record_appended(Hist, suffix)
           IN  r.kind = "Ok" => NonDecreasingFrom(r.h.records, Len(records))

\* new_tail lies between the committed and the appended tail of h.
RollbackInRange(h, new_tail) ==
    /\ h.committed_tail.index <= new_tail.index
    /\ new_tail.index <= h.appended_tail.index

\* The record of h that holds new_tail.index has the prev_term of new_tail.
RollbackTermMatches(h, new_tail) ==
    /\ get_record(h, new_tail.index) # None
    /\ get_record(h, new_tail.index)[1].head.prev_term = new_tail.prev_term

\* C14: record_rollback(new_tail) succeeds exactly when new_tail lies between
\* the committed and the appended tail and the record holding new_tail.index
\* has the prev_term of new_tail; a failure leaves the history as it was and
\* is InconsistentState for the prev_term mismatch; a success sets
\* appended_tail = new_tail, keeps the records before the first one with
\* head.index > new_tail.index and no other, and leaves committed_tail and
\* consumed_tail alone, so nothing committed is rolled back.
C14_RecordRollback ==
    \A new_tail \in Positions :
        LET r == record_rollback(Hist, new_tail)
        IN  /\ r.kind = "Ok" <=>
                   RollbackInRange(Hist, new_tail) /\ RollbackTermMatches(Hist, new_tail)
            /\ r.kind # "Ok" =>
                   /\ r.h = Hist
                   /\ r.kind \in {"Other", "InconsistentState"}
            /\ RollbackInRange(Hist, new_tail) /\ ~RollbackTermMatches(Hist, new_tail)
                   => r.kind = "InconsistentState"
            /\ r.kind = "Ok" =>
                   /\ r.h.appended_tail = new_tail
                   /\ r.h.committed_tail = committed_tail
                   /\ r.h.consumed_tail = consumed_tail
                   /\ r.h.committed_tail.index <= r.h.appended_tail.index
                   /\ Len(r.h.records) <= Len(records)
                   /\ r.h.records = SubSeq(records, 1, Len(r.h.records))
                   /\ \A i \in 1..Len(r.h.records) :
                          r.h.records[i].head.index <= new_tail.index
                   /\ Len(r.h.records) < Len(records) =>
                          records[Len(r.h.records) + 1].head.index > new_tail.index

\* A history with something committed where one rollback succeeds and drops
\* a record, one fails on the prev_term and one fails below the committed
\* tail.
C14_Witness ==
    /\ committed_tail.index > 0
    /\ \E new_tail \in Positions :
           /\ record_rollback(Hist, new_tail).kind = "Ok"
           /\ Len(record_rollback(Hist, new_tail).h.records) < Len(records)
    /\ \E new_tail \in Positions :
           /\ RollbackInRange(Hist, new_tail)
           /\ record_rollback(Hist, new_tail).kind = "InconsistentState"
    /\ \E new_tail \in Positions :
           /\ new_tail.index < committed_tail.index
           /\ RollbackTermMatches(Hist, new_tail)
           /\ record_rollback(Hist, new_tail).kind = "Other"

-----------------------------------------------------------------------------
(* Properties of the snapshot handling of the follower, stated over       *)
(* SpecFollower.                                                           *)

\* The step takes the follower into the Snapshot sub-state.
EntersSnapshot == sub_state # "Snapshot" /\ sub_state' = "Snapshot"

\* C15: in Idle an InstallSnapshotCast is accepted exactly when its
\* prefix.tail.index is beyond committed_tail.index and no snapshot install
\* is in progress; the Snapshot sub-state is entered from Idle only, with
\* such a snapshot and with the history untouched, and an install in
\* progress is never replaced by another one.
C15_IdleInstallSnapshot ==
    /\ [](/\ \A message \in InstallSnapshotCasts :
                \A inst \in {None, installing, Some(message.prefix)} :
                    idle_accepts_snapshot(Hist, inst, message)
                        <=> /\ message.prefix.tail.index > committed_tail.index
                            /\ inst = None
          /\ sub_state = "Snapshot" => installing # None
          /\ sub_state = "Idle" => installing = None)
    /\ [][/\ EntersSnapshot =>
                 /\ sub_state = "Idle"
                 /\ installing = None /\ installing' # None
                 /\ installing'[1].tail.index > committed_tail.index
                 /\ UNCHANGED history_vars
          /\ installing # None => installing' \in {installing, None}
          /\ (sub_state = "Idle" /\ installing' # None) => EntersSnapshot]_vars

\* A snapshot is being installed by a follower that has committed entries,
\* so that casts of both kinds (at or below the committed tail, beyond it)
\* exist.
C15_Witness ==
    /\ sub_state = "Snapshot"
    /\ installing # None
    /\ committed_tail.index > 0
    /\ installing[1].tail.index > committed_tail.index

-----------------------------------------------------------------------------
(* Properties of the followers map of the leader, stated over SpecLeader. *)

\* C16: after handle_config_updated(c) the followers map has exactly the
\* members of c as its keys and the stored config is c; a member that had a
\* record keeps it as it was, a member that had none gets Follower::new(),
\* and so every member the committed-tail queries consult has a record.
\* The first part states this of the call with any configuration c, in the
\* managers no query or update has acted on yet (they are all the managers
\* there are); the second part states it of the steps taken.
C16_HandleConfigUpdated ==
    /\ [](/\ DOMAIN followers = members(config)
          /\ result = None =>
               \A c \in Configs(LeaderNodes) :
                 LET fm == handle_config_updated(FollowersManager(config, followers), c)
                 IN  /\ fm.config = c
                     /\ DOMAIN fm.followers = c.new \cup c.old
                     /\ \A n \in DOMAIN fm.followers :
                            fm.followers[n] =
                                IF n \in DOMAIN followers THEN followers[n]
                                ELSE Follower(0, 0, 0, FALSE))
    /\ [][(config' # config \/ followers' # followers) =>
              /\ DOMAIN followers' = config'.new \cup config'.old
              /\ \A n \in DOMAIN followers' :
                     followers'[n] = IF n \in DOMAIN followers THEN followers[n]
                                     ELSE Follower(0, 0, 0, FALSE)]_vars

\* A configuration update has added a fresh record for a new member next to
\* the record of a member that stays and has reported a log tail, and a
\* node of LeaderNodes is no member any more.
C16_Witness ==
    /\ result = Result("handle_config_updated", None)
    /\ \E n \in DOMAIN followers : followers[n] = Follower_new /\ n \notin config.old
    /\ \E n \in DOMAIN followers : followers[n].synced /\ followers[n].log_tail > 0
    /\ DOMAIN followers # LeaderNodes
    /\ DOMAIN followers = members(config)

-----------------------------------------------------------------------------
(* Properties of the changes of a configuration, stated over SpecConfig.  *)

\* C17: to_next_state takes CatchUp to Joint keeping new and old, Joint to
\* Stable keeping new and clearing old, and Stable to itself; two steps
\* after any start_config_change the configuration is Stable, further steps
\* change nothing, and every Stable configuration has an empty old set.
C17_ToNextState ==
    /\ (result # None /\ result[1].op = "to_next_state") =>
           LET self == result[1].value[1]
           IN  /\ self.state = "CatchUp" =>
                      config = ClusterConfig(self.new, self.old, "Joint")
               /\ self.state = "Joint" =>
                      config = ClusterConfig(self.new, {}, "Stable")
               /\ self.state = "Stable" => config = self
    /\ \A new \in SUBSET ConfigNodes :
           LET started == start_config_change(config, new)
               stable == to_next_state(to_next_state(started))
           IN  /\ started.state = "CatchUp"
               /\ to_next_state(started).state = "Joint"
               /\ stable = ClusterConfig(new, {}, "Stable")
               /\ to_next_state(stable) = stable
    /\ config.state = "Stable" => config.old = {}

\* A change of the members has gone through Joint to Stable: the last call
\* is a to_next_state on a Joint configuration whose old members differ from
\* the new ones.
C17_Witness ==
    /\ result # None /\ result[1].op = "to_next_state"
    /\ result[1].value[1].state = "Joint"
    /\ result[1].value[1].old # {}
    /\ result[1].value[1].old # result[1].value[1].new
    /\ config.state = "Stable"

\* C18: every Joint configuration reached from ClusterConfig::new through
\* start_config_change and to_next_state has non-empty new and old sets, so
\* the medians of consensus_value and full_consensus_value are never taken
\* over an empty member set.
C18_JointSetsNonEmpty ==
    config.state = "Joint" =>
        /\ config.new # {}
        /\ config.old # {}
        /\ consensus_value(config, [n \in members(config) |-> 0]) # None
        /\ full_consensus_value(config, [n \in members(config) |-> 0]) # None

-----------------------------------------------------------------------------
(* Properties of the operations on a log suffix, stated over SpecSuffix.  *)

\* The term of the entry of suffix s at log index i (the entry after
\* position i).
TermAt(s, i) == term(s.entries[(i - s.head.index) + 1])

\* next begins inside self or at its tail, and where the two overlap they
\* hold entries of the same terms and next.head names the term before it.
MergeAgrees(self, next) ==
    /\ self.head.index <= next.head.index
    /\ next.head.index <= tail(self).index
    /\ next.head.prev_term =
           IF next.head.index = self.head.index THEN self.head.prev_term
           ELSE TermAt(self, next.head.index - 1)
    /\ \A i \in next.head.index..(tail(self).index - 1) :
           i < tail(next).index => TermAt(self, i) = TermAt(next, i)

\* C19: merge(next) accepts every next that begins at the tail of self or
\* overlaps it and agrees with it on the terms of the overlap; self then
\* keeps its head and its entries before next.head.index, followed by the
\* entries of next, so that its tail is the tail of next; save_log_suffix
\* on a persisted suffix does not fail on such a suffix.
C19_MergeOverlapOrAdjacent ==
    rawlogs # None =>
        \A next \in SuffixInputs :
            MergeAgrees(rawlogs[1], next) =>
                LET self == rawlogs[1]
                    m == merge(self, next)
                IN  /\ m.kind = "Ok"
                    /\ m.suffix.head = self.head
                    /\ m.suffix.entries =
                           SubSeq(self.entries, 1, next.head.index - self.head.index)
                               \o next.entries
                    /\ tail(m.suffix) = tail(next)
                    /\ save_log_suffix(rawlogs, next).kind = "Ok"

\* The suffix of the skip_to test of src/log/mod.rs.
S3_suffix ==
    LogSuffix(LogPosition(0, 30),
              <<LogEntry("Noop", 0, NoConfig), LogEntry("Noop", 2, NoConfig),
                LogEntry("Noop", 2, NoConfig)>>)

S3_SkipTo ==
    LET s1 == skip_to(S3_suffix, 31)
        s2 == skip_to(s1.suffix, 33)
        s3 == skip_to(s2.suffix, 33)
    IN  /\ s1.kind = "Ok" /\ s2.kind = "Ok" /\ s3.kind = "Ok"
        /\ positions(s1.suffix)
               = <<LogPosition(0, 31), LogPosition(2, 32), LogPosition(2, 33)>>
        /\ Len(s1.suffix.entries) = 2
        /\ positions(s2.suffix) = <<LogPosition(2, 33)>>
        /\ Len(s2.suffix.entries) = 0
        /\ s3.suffix = s2.suffix

\* C20: for every suffix and every k from head.index to tail().index,
\* skip_to(k) succeeds, keeps tail(), sets head.index = k and head.prev_term
\* to the term of the entry just before k (the head is unchanged when
\* k = head.index) and drops exactly the k - head.index leading entries; a
\* second skip_to(k) changes nothing; for any other k it returns
\* InvalidInput and leaves the suffix as it was.
C20_SkipTo ==
    /\ S3_SkipTo
    /\ rawlogs # None =>
        \A k \in 0..(MaxIndex + MaxSuffixLen + 1) :
            LET s == rawlogs[1]
                r == skip_to(s, k)
            IN  IF s.head.index <= k /\ k <= tail(s).index
                THEN /\ r.kind = "Ok"
                     /\ tail(r.suffix) = tail(s)
                     /\ r.suffix.head.index = k
                     /\ r.suffix.head.prev_term =
                            IF k = s.head.index THEN s.head.prev_term
                            ELSE TermAt(s, k - 1)
                     /\ r.suffix.entries =
                            SubSeq(s.entries, (k - s.head.index) + 1, Len(s.entries))
                     /\ Len(r.suffix.entries) = Len(s.entries) - (k - s.head.index)
                     /\ skip_to(r.suffix, k) = [kind |-> "Ok", suffix |-> r.suffix]
                ELSE r = [kind |-> "InvalidInput", suffix |-> s]

\* A skip_to has moved the head of a suffix forward past entries of a term
\* other than the one its head named, and entries remain.
C20_Witness ==
    /\ result = Result("skip_to", "Ok")
    /\ rawlogs # None
    /\ rawlogs[1].head.index > 0
    /\ rawlogs[1].head.prev_term = 2
    /\ Len(rawlogs[1].entries) > 0
    /\ skip_to(rawlogs[1], 0).kind = "InvalidInput"

-----------------------------------------------------------------------------
(* Properties of get_record on a history built by record_appended calls,  *)
(* stated over SpecAppend.                                                *)

\* The last record of the history whose head.index is at most index.
LastRecordUpTo(recs, index) ==
    LET ks == {k \in 1..Len(recs) : recs[k].head.index <= index}
    IN  IF ks = {} THEN None
        ELSE Some(recs[CHOOSE k \in ks : \A j \in ks : j <= k])

\* C13: in a history built by record_appended calls, for every index I from
\* head().index up to but not including appended_tail.index, get_record(I)
\* is the last record whose head.index <= I and its head.prev_term is the
\* term of entry I (the entry that ends at position I; position 0 has term
\* 0); get_record(I) is None exactly when I < head().index.
C13_GetRecordTermOfEntry ==
    /\ \A I \in 0..MaxAppendIndex :
           /\ get_record(Hist, I) = LastRecordUpTo(records, I)
           /\ get_record(Hist, I) = None <=> I < head(Hist).index
    /\ \A I \in head(Hist).index..(appended_tail.index - 1) :
           /\ get_record(Hist, I) # None
           /\ get_record(Hist, I)[1].head.prev_term = PrevTermAt(entry_terms, I)

-----------------------------------------------------------------------------
(* Properties of tail, positions, truncate and slice, stated over         *)
(* SpecSuffix.                                                            *)

\* The positions of suffix s whose index lies from lo to hi, in their order.
PositionsBetween(s, lo, hi) ==
    SelectSeq(positions(s), LAMBDA q : lo <= q.index /\ q.index <= hi)

S2_Positions ==
    <<LogPosition(0, 30), LogPosition(0, 31), LogPosition(2, 32), LogPosition(2, 33)>>

\* C21: positions() of a suffix yields len(entries) + 1 positions, the head
\* first and then (term(entries[i]), head.index + i + 1) for each entry i
\* (counted from 0); the last of them is tail(), which is the head for an
\* empty suffix and (term of the last entry, head.index + len) otherwise.
C21_PositionsAndTail ==
    /\ positions(S3_suffix) = S2_Positions
    /\ tail(S3_suffix) = LogPosition(2, 33)
    /\ rawlogs # None =>
           LET s == rawlogs[1]
               ps == positions(s)
               n == Len(s.entries)
           IN  /\ Len(ps) = n + 1
               /\ ps[1] = s.head
               /\ \A i \in 0..(n - 1) :
                      ps[i + 2] = LogPosition(s.entries[i + 1].term, s.head.index + i + 1)
               /\ ps[n + 1] = tail(s)
               /\ n = 0 => tail(s) = s.head
               /\ n > 0 => tail(s) = LogPosition(s.entries[n].term, s.head.index + n)
               /\ \A k \in 0..(n + 1) :
                      positions_nth(s, k) = IF k <= n THEN Some(ps[k + 1]) ELSE None

\* A saved suffix whose last entry has another term than its head names and
\* whose entries differ in their terms.
C21_Witness ==
    /\ rawlogs # None
    /\ Len(rawlogs[1].entries) >= 2
    /\ rawlogs[1].head.index > 0
    /\ tail(rawlogs[1]).prev_term # rawlogs[1].head.prev_term
    /\ rawlogs[1].entries[1].term # rawlogs[1].entries[2].term

S4_Truncate ==
    LET r == truncate(S3_suffix, 31)
    IN  /\ r.kind = "Ok"
        /\ positions(r.suffix) = <<LogPosition(0, 30), LogPosition(0, 31)>>
        /\ Len(r.suffix.entries) = 1

\* C22: for every suffix and every k from head.index to tail().index,
\* truncate(k) succeeds, keeps the head and the first k - head.index entries
\* and nothing else, so that tail().index = k, and tail() is the head when
\* k = head.index.
C22_Truncate ==
    /\ S4_Truncate
    /\ rawlogs # None =>
        \A k \in 0..(MaxIndex + MaxSuffixLen + 1) :
            LET s == rawlogs[1]
                r == truncate(s, k)
            IN  (s.head.index <= k /\ k <= tail(s).index) =>
                    /\ r.kind = "Ok"
                    /\ r.suffix.head = s.head
                    /\ r.suffix.entries = SubSeq(s.entries, 1, k - s.head.index)
                    /\ tail(r.suffix).index = k
                    /\ k = s.head.index => tail(r.suffix) = s.head
                    /\ positions(r.suffix) = PositionsBetween(s, s.head.index, k)

\* A truncate has cut entries off a suffix that does not start at index 0
\* and has left some.
C22_Witness ==
    /\ result = Result("truncate", "Ok")
    /\ rawlogs # None
    /\ rawlogs[1].head.index > 0
    /\ Len(rawlogs[1].entries) > 0
    /\ Len(rawlogs[1].entries) < MaxSuffixLen

S_Slice ==
    LET r == slice(S3_suffix, 31, 33)
    IN  /\ r.kind = "Ok"
        /\ positions(r.suffix)
               = <<LogPosition(0, 31), LogPosition(2, 32), LogPosition(2, 33)>>
        /\ Len(r.suffix.entries) = 2

\* C23: for every suffix and every s <= e with head.index <= s and
\* e <= tail().index, slice(s, e) returns a suffix whose positions are the
\* positions of self with an index from s to e, in the same order, so that
\* it holds e - s entries; self is left as it was.
C23_Slice ==
    /\ [](/\ S_Slice
          /\ rawlogs # None =>
               \A start \in 0..(MaxIndex + MaxSuffixLen + 1) :
                 \A end \in start..(MaxIndex + MaxSuffixLen + 1) :
                   LET self == rawlogs[1]
                       r == slice(self, start, end)
                   IN  (self.head.index <= start /\ end <= tail(self).index) =>
                           /\ r.kind = "Ok"
                           /\ positions(r.suffix) = PositionsBetween(self, start, end)
                           /\ Len(r.suffix.entries) = end - start)
    /\ [][(result' # None /\ result'[1].op = "slice") => rawlogs' = rawlogs]_vars

\* A slice has been cut out of a suffix of three entries, and a slice of it
\* that starts past the head and ends before the tail exists.
C23_Witness ==
    /\ result = Result("slice", "Ok")
    /\ rawlogs # None
    /\ Len(rawlogs[1].entries) = MaxSuffixLen
    /\ rawlogs[1].entries[1].term # rawlogs[1].head.prev_term
    /\ slice(rawlogs[1], rawlogs[1].head.index + 1, rawlogs[1].head.index + 2).kind = "Ok"

-----------------------------------------------------------------------------
(* Properties of the completion of an Append, stated over SpecFollower.   *)

\* The follower is in Append and has not failed.
Appending == sub_state = "Append" /\ handled = "Ok" /\ append # None

\* run_once records the suffix of the FollowerAppend fa.
RecordsSuffix(fa) == fa.new_log_tail = tail(fa.message.suffix)

\* What run_once does when record_appended, if called, succeeds.
CompletesAppend(fa) ==
    LET called == RecordsSuffix(fa)
        a == IF called THEN record_appended(Hist, fa.message.suffix)
             ELSE Outcome("Ok", Hist)
        r == FollowerAppend_run_once(Hist, fa)
    IN  /\ r.kind = "Ok"
        /\ r.next = NextState("Idle", None)
        /\ r.replies = <<AppendEntriesReply(fa.message.header,
                                            tail(fa.message.suffix), FALSE)>>
        /\ r.h = record_committed(a.h, fa.message.committed_log_tail).h
        /\ r.h.committed_tail.index = fa.message.committed_log_tail
        /\ called => r.h.appended_tail = tail(fa.message.suffix)
        /\ ~called => r.h.appended_tail = appended_tail /\ r.h.records = records

\* C24: when an Append completes, run_once calls record_appended on the
\* suffix of the message exactly when the tail computed on entry is the tail
\* of that suffix; if that call fails, run_once returns its error without
\* recording a commit index, replying or leaving Append; otherwise it
\* records the clamped commit index, replies with the tail of the suffix
\* and returns to Idle.  A message that ends before the local tail does not
\* move the appended tail, no completion moves it back, the storage write
\* is skipped exactly when the computed tail has the index of the local
\* tail, and a history that an Append has changed is not changed by that
\* Append again.
C24_AppendCompletion ==
    /\ [](Appending =>
            LET fa == append[1]
                r == FollowerAppend_run_once(Hist, fa)
                a == record_appended(Hist, fa.message.suffix)
            IN  /\ IF RecordsSuffix(fa) /\ a.kind # "Ok"
                   THEN /\ r.kind = a.kind
                        /\ r.next = None
                        /\ r.replies = <<>>
                        /\ r.h.committed_tail = committed_tail
                        /\ r.h.appended_tail = appended_tail
                   ELSE CompletesAppend(fa)
                /\ RecordsSuffix(fa) <=>
                       tail(fa.message.suffix).index >= appended_tail.index
                /\ tail(fa.message.suffix).index < appended_tail.index =>
                       r.h.appended_tail = appended_tail
                /\ r.h.appended_tail.index >= appended_tail.index
                /\ fa.future = "None" <=> fa.new_log_tail.index = appended_tail.index)
    /\ [][(sub_state = "Append" /\ history_vars' # history_vars) =>
              /\ Appending
              /\ <<appended_tail', committed_tail', consumed_tail', records'>>
                     = LET h == FollowerAppend_run_once(Hist, append[1]).h
                       IN  <<h.appended_tail, h.committed_tail, h.consumed_tail, h.records>>
              /\ (sub_state' = "Idle" \/ handled' # "Ok")]_vars

\* An Append is about to complete whose message ends before the local tail
\* and raises the commit index.
C24_Witness ==
    /\ Appending
    /\ tail(append[1].message.suffix).index < appended_tail.index
    /\ append[1].message.committed_log_tail > committed_tail.index
    /\ FollowerAppend_run_once(Hist, append[1]).kind = "Ok"

\* C24 as stated: every completion of an Append records the commit index,
\* replies with the tail of the suffix and returns to Idle.
C24_AlwaysCompletes ==
    Appending =>
        LET r == FollowerAppend_run_once(Hist, append[1])
        IN  /\ r.kind = "Ok"
            /\ r.next = NextState("Idle", None)
            /\ r.h.committed_tail.index = append[1].message.committed_log_tail
            /\ r.replies = <<AppendEntriesReply(append[1].message.header,
                                                tail(append[1].message.suffix), FALSE)>>

Max(a, b) == IF a < b THEN b ELSE a

Min(a, b) == IF b < a THEN b ELSE a

\* C25: the commit index an Append is started with is the larger of the
\* local committed index and of the smaller of the leader's commit index
\* and the index of the tail of the suffix; when the Append completes
\* without record_appended failing, record_committed succeeds and the
\* committed index is that value, not below the previous one and not beyond
\* the appended tail.
C25_ClampedCommitIndex ==
    /\ (sub_state = "Idle" /\ handled = "Ok") =>
           \A message \in AppendEntriesCalls :
               LET r == handle_entries(Hist, message, TRUE)
               IN  (r.next # None /\ r.next[1].sub_state = "Append") =>
                       LET fa == r.next[1].append[1]
                       IN  /\ tail(fa.message.suffix) = tail(message.suffix)
                           /\ fa.message.committed_log_tail =
                                  Max(r.h.committed_tail.index,
                                      Min(message.committed_log_tail,
                                          tail(message.suffix).index))
    /\ Appending =>
           LET fa == append[1]
               a == IF RecordsSuffix(fa) THEN record_appended(Hist, fa.message.suffix)
                    ELSE Outcome("Ok", Hist)
               c == record_committed(a.h, fa.message.committed_log_tail)
           IN  /\ committed_tail.index <= fa.message.committed_log_tail
               /\ fa.message.committed_log_tail
                      <= Max(appended_tail.index, tail(fa.message.suffix).index)
               /\ a.kind = "Ok" =>
                      /\ c.kind = "Ok"
                      /\ c.h.committed_tail.index = fa.message.committed_log_tail
                      /\ committed_tail.index <= c.h.committed_tail.index
                      /\ c.h.committed_tail.index <= c.h.appended_tail.index
                      /\ FollowerAppend_run_once(Hist, fa).h = c.h

\* An Append is about to complete that appends entries and commits some but
\* not all of them, beyond what was committed before.
C25_Witness ==
    /\ Appending
    /\ RecordsSuffix(append[1])
    /\ append[1].future = "SaveLog"
    /\ committed_tail.index < append[1].message.committed_log_tail
    /\ append[1].message.committed_log_tail < tail(append[1].message.suffix).index
    /\ FollowerAppend_run_once(Hist, append[1]).kind = "Ok"

-----------------------------------------------------------------------------
(* Properties of the Idle handling of an AppendEntriesCall, stated over   *)
(* SpecFollower.                                                          *)

\* The follower is in Idle and has not failed.
Idling == sub_state = "Idle" /\ handled = "Ok"

\* No position of the suffix is one where the walk finds a mismatch.
NoMismatch(h, suffix) ==
    \A k \in 1..Len(positions(suffix)) : ~DivergesAt(h, suffix, k)

\* Where a suffix without mismatch joins the local log.
JoinPoint(h, suffix) ==
    IF \E k \in 1..Len(positions(suffix)) :
           positions(suffix)[k].index = h.appended_tail.index
    THEN h.appended_tail
    ELSE tail(suffix)

\* C26: when the walk over the suffix of a call that overlaps the local log
\* finds no mismatch, the follower moves to Append without an error, a reply
\* or a change of the history; the suffix of the Append is the suffix of the
\* call skipped to the join point, which is the local tail if a position of
\* the suffix has the index of the local tail and the tail of the suffix
\* otherwise; a storage write is issued exactly when the index of the tail
\* of the suffix exceeds the index of the local tail.
C26_NoMismatchProceedsToAppend ==
    Idling =>
        \A message \in AppendEntriesCalls, overflow_checks \in BOOLEAN :
            (Overlaps(Hist, message) /\ NoMismatch(Hist, Adjusted(Hist, message))) =>
                LET suffix == Adjusted(Hist, message)
                    join == JoinPoint(Hist, suffix)
                    l == longest_common_prefix(Hist, suffix, overflow_checks)
                    r == handle_entries(Hist, message, overflow_checks)
                IN  /\ l = [kind |-> "Ok", matched |-> TRUE, lcp |-> join]
                    /\ r.kind = "Ok"
                    /\ r.h = Hist
                    /\ r.replies = <<>>
                    /\ r.next # None
                    /\ r.next[1].sub_state = "Append"
                    /\ LET fa == r.next[1].append[1]
                       IN  /\ fa.message.suffix = skip_to(suffix, join.index).suffix
                           /\ fa.message.suffix.head.index = join.index
                           /\ tail(fa.message.suffix) = tail(message.suffix)
                           /\ fa.message.header = message.header
                           /\ fa.future = "SaveLog" <=>
                                  tail(message.suffix).index > appended_tail.index
                           /\ fa.future \in {"SaveLog", "None"}

\* An Append has begun whose suffix was cut at the local tail, past entries
\* the follower already holds, and whose remaining entries are to be stored.
C26_Witness ==
    /\ Appending
    /\ appended_tail.index > 0
    /\ append[1].message.suffix.head = appended_tail
    /\ Len(append[1].message.suffix.entries) > 0
    /\ append[1].future = "SaveLog"
    /\ \E message \in AppendEntriesCalls :
           /\ Overlaps(Hist, message) /\ NoMismatch(Hist, Adjusted(Hist, message))
           /\ tail(message.suffix).index < appended_tail.index

\* The suffix of the call lies before the local head.
Stale(h, message) == tail(message.suffix).index < head(h).index

\* The suffix of the call starts beyond the local tail.
Gap(h, message) == h.appended_tail.index < message.suffix.head.index

\* C27: in Idle a call whose suffix ends before the local head or starts
\* beyond the local tail is answered with one reply that is not busy and
\* carries the local tail; the handler returns no error, names no next
\* state (no FollowerAppend is made, so nothing is stored) and leaves the
\* history as it was.  A suffix that starts before the local head and does
\* not end before it is skipped to the index of the local head before it is
\* handled further.
C27_StaleOrGapReply ==
    Idling =>
        \A message \in AppendEntriesCalls, overflow_checks \in BOOLEAN :
            LET r == handle_entries(Hist, message, overflow_checks)
            IN  /\ (Stale(Hist, message) \/ Gap(Hist, message)) =>
                       r = [kind |-> "Ok", h |-> Hist, next |-> None,
                            replies |-> <<[header |-> message.header,
                                           log_tail |-> appended_tail,
                                           busy |-> FALSE]>>]
                /\ (~Stale(Hist, message)
                        /\ message.suffix.head.index < head(Hist).index) =>
                       LET s == skip_to(message.suffix, head(Hist).index)
                       IN  /\ s.kind = "Ok"
                           /\ s.suffix.head.index = head(Hist).index
                           /\ tail(s.suffix) = tail(message.suffix)
                           /\ r = handle_entries(Hist,
                                      [message EXCEPT !.suffix = s.suffix],
                                      overflow_checks)
                           /\ ~Gap(Hist, [message EXCEPT !.suffix = s.suffix]) =>
                                  r = handle_non_disjoint_entries(Hist,
                                          [message EXCEPT !.suffix = s.suffix],
                                          overflow_checks)

\* A follower whose log begins at a snapshot has answered a call with its
\* tail and stayed in Idle; calls that lie before its head, calls that start
\* beyond its tail and calls that start before its head and reach into its
\* log all exist.
C27_Witness ==
    /\ Idling
    /\ head(Hist).index > 0
    /\ Len(outbox) = 1
    /\ outbox[1].log_tail = appended_tail
    /\ ~outbox[1].busy
    /\ \E message \in AppendEntriesCalls : Stale(Hist, message)
    /\ \E message \in AppendEntriesCalls : Gap(Hist, message)
    /\ \E message \in AppendEntriesCalls :
           ~Stale(Hist, message) /\ message.suffix.head.index < head(Hist).index

\* The records one entry adds after the record last: one record at position
\* (term of the entry, index of the entry + 1) that carries the config of a
\* Config entry whose config differs from the config of last, or else the
\* config of last when the term of the entry differs from the prev_term of
\* last, and nothing when the entry changes neither.
PushedBy(last, e, index) ==
    IF e.kind = "Config" /\ e.config # last.config
    THEN <<[head |-> [prev_term |-> term(e), index |-> index + 1],
            config |-> e.config]>>
    ELSE IF term(e) # last.head.prev_term
    THEN <<[head |-> [prev_term |-> term(e), index |-> index + 1],
            config |-> last.config]>>
    ELSE <<>>

\* recs after the entries of suffix from position i (1-based) on have each
\* added their records.
RECURSIVE PushedFrom(_, _, _)
PushedFrom(recs, suffix, i) ==
    IF i > Len(suffix.entries) THEN recs
    ELSE PushedFrom(recs \o PushedBy(recs[Len(recs)], suffix.entries[i],
                                     suffix.head.index + i - 1),
                    suffix, i + 1)

\* C28: a successful record_appended(suffix) whose suffix begins at or
\* before the appended tail sets appended_tail to suffix.tail(), leaves the
\* other two tails alone and changes the records only by what the entries at
\* or past the old appended tail push: each pushes exactly one record at
\* (its term, its index + 1) when it is a Config entry with a config other
\* than the latest record's (the record carries the new config) or when its
\* term differs from the latest record's prev_term (the record carries the
\* current config), and nothing when it changes neither.  The entries
\* inside the overlap push nothing.
C28_RecordAppended ==
    \A suffix \in Suffixes :
        LET r == record_appended(Hist, suffix)
            offset == appended_tail.index - suffix.head.index
        IN  (suffix.head.index <= appended_tail.index /\ r.kind = "Ok") =>
                /\ r.h.appended_tail = tail(suffix)
                /\ r.h.committed_tail = committed_tail
                /\ r.h.consumed_tail = consumed_tail
                /\ r.h.records = PushedFrom(records, suffix, offset + 1)
                /\ \A i \in (offset + 1)..Len(suffix.entries) :
                       Len(PushedBy(records[Len(records)], suffix.entries[i],
                                    suffix.head.index + i - 1)) <= 1

\* A history that holds a record pushed by an entry, and a suffix that
\* overlaps its log, is appended with success and pushes a record.
C28_Witness ==
    /\ Len(records) >= 2
    /\ records[Len(records)].head.index = appended_tail.index
    /\ \E suffix \in Suffixes :
           LET r == record_appended(Hist, suffix)
           IN  /\ suffix.head.index < appended_tail.index
               /\ appended_tail.index < tail(suffix).index
               /\ r.kind = "Ok"
               /\ Len(r.h.records) > Len(records)

\* C29: record_appended(suffix) with a suffix that begins beyond the
\* appended tail returns the error kind InconsistentState and leaves the
\* history as it was.
C29_GapIsInconsistentState ==
    \A suffix \in Suffixes :
        appended_tail.index < suffix.head.index =>
            record_appended(Hist, suffix) = Outcome("InconsistentState", Hist)

\* The records of recs whose head lies beyond index, in their order.
RECURSIVE RecordsBeyond(_, _)
RecordsBeyond(recs, index) ==
    IF recs = <<>> THEN <<>>
    ELSE IF recs[1].head.index > index
    THEN <<recs[1]>> \o RecordsBeyond(Tail(recs), index)
    ELSE RecordsBeyond(Tail(recs), index)

\* C30: record_snapshot_installed(new_head, config) fails with
\* InconsistentState and changes nothing when new_head lies before the head;
\* otherwise it succeeds, the first record becomes {new_head, config}, every
\* record with head.index <= new_head.index is gone and the later ones are
\* kept, the appended and the committed tail become new_head exactly when
\* their index was below new_head.index, and consumed_tail stays.
C30_RecordSnapshotInstalled ==
    \A new_head \in Positions, c \in HistoryConfigs :
        LET r == record_snapshot_installed(Hist, new_head, c)
        IN  IF new_head.index < head(Hist).index
            THEN r = Outcome("InconsistentState", Hist)
            ELSE /\ r.kind = "Ok"
                 /\ head(r.h) = new_head
                 /\ r.h.records = <<[head |-> new_head, config |-> c]>>
                                      \o RecordsBeyond(records, new_head.index)
                 /\ r.h.appended_tail =
                        IF appended_tail.index < new_head.index
                        THEN new_head ELSE appended_tail
                 /\ r.h.committed_tail =
                        IF committed_tail.index < new_head.index
                        THEN new_head ELSE committed_tail
                 /\ r.h.consumed_tail = consumed_tail

\* The replies of the nodes that have a follower record.
KnownReplies == {reply \in LeaderReplies : reply.header.sender \in DOMAIN followers}

\* What update_follower_state does to the record of the sender of reply.
C31_OnReply(reply) ==
    LET u == update_follower_state(followers, Hist, reply)
        sender == reply.header.sender
        old == followers[sender]
        new == u.followers[sender]
    IN  /\ u.kind = "Ok"
        /\ DOMAIN u.followers = DOMAIN followers
        /\ \A n \in DOMAIN followers \ {sender} : u.followers[n] = followers[n]
        /\ new.last_seq_no = Max(old.last_seq_no, reply.header.seq_no)
        /\ new.obsolete_seq_no = old.obsolete_seq_no
        /\ reply.busy =>
               /\ new.log_tail = old.log_tail
               /\ new.synced = old.synced
               /\ ~u.updated
        /\ (~reply.busy /\ old.synced) =>
               /\ new.log_tail = Max(old.log_tail, reply.log_tail.index)
               /\ u.updated = (old.log_tail < reply.log_tail.index)
               /\ new.synced = ~(reply.log_tail.index = 0 /\ old.log_tail # 0)

\* No step lowers the log_tail of a follower that is synced before and
\* after it.
SyncedTailKept ==
    \A n \in DOMAIN followers \cap DOMAIN followers' :
        (followers[n].synced /\ followers'[n].synced) =>
            followers[n].log_tail <= followers'[n].log_tail

\* C31: on a reply the leader raises the last_seq_no of the sender to the
\* seq_no of the reply if that is larger and never lowers it; a busy reply
\* changes neither log_tail nor synced and reports not updated; for a synced
\* follower a reply that is not busy only raises log_tail (to the index of
\* the reply's tail when that is larger, reporting updated), and a reply
\* with index 0 while the recorded log_tail is not 0 marks the follower
\* unsynced.  The log_tail of a follower never decreases while it stays
\* synced, whatever the order of the replies.
C31_UpdateSyncedFollower ==
    /\ [](\A reply \in KnownReplies : C31_OnReply(reply))
    /\ [][SyncedTailKept]_vars

\* A synced follower whose tail and sequence number are at the top, so that
\* replies with a lower tail and a lower sequence number exist, after both
\* calls were broadcast.
C31_Witness ==
    /\ last_broadcast_seq_no = MaxSeqNo
    /\ \E n \in DOMAIN followers :
           /\ followers[n].synced
           /\ followers[n].log_tail = MaxSyncIndex
           /\ followers[n].last_seq_no = MaxSeqNo

\* Record k of the leader's history is the one that contains index: it
\* begins at or before index and the next record, if any, begins after it.
ContainsIndex(k, index) ==
    /\ records[k].head.index <= index
    /\ k < Len(records) => index < records[k + 1].head.index

\* The leader's history shows the term of p at the index of p.
JoinsAt(p) ==
    \E k \in 1..Len(records) :
        ContainsIndex(k, p.index) /\ records[k].head.prev_term = p.prev_term

\* C32: for a follower that is not synced, a reply that is not busy marks
\* it synced exactly when the leader's history has a record that contains
\* the index of the reply's tail and whose head.prev_term is the prev_term
\* of the reply's tail, and then log_tail becomes that index; otherwise the
\* follower stays unsynced and log_tail becomes the index minus one, or 0
\* for index 0.
C32_UpdateUnsyncedFollower ==
    \A reply \in KnownReplies :
        LET u == update_follower_state(followers, Hist, reply)
            old == followers[reply.header.sender]
            new == u.followers[reply.header.sender]
            index == reply.log_tail.index
        IN  (~reply.busy /\ ~old.synced) =>
                /\ new.synced = JoinsAt(reply.log_tail)
                /\ u.updated = JoinsAt(reply.log_tail)
                /\ new.log_tail = IF JoinsAt(reply.log_tail) THEN index
                                  ELSE IF index = 0 THEN 0 ELSE index - 1

\* One follower has joined the leader's log at its tail, another has been
\* stepped back to index 1 and is not synced.
C32_Witness ==
    /\ \E n \in DOMAIN followers :
           followers[n].synced /\ followers[n].log_tail = appended_tail.index
    /\ \E n \in DOMAIN followers :
           ~followers[n].synced /\ followers[n].log_tail = 1

\* The reply passes the tests log_sync makes before it records the last
\* broadcast seq_no.
PassesSeqNo(reply) ==
    /\ ~reply.busy
    /\ reply.header.sender \notin DOMAIN tasks
    /\ reply.header.seq_no > followers[reply.header.sender].obsolete_seq_no

\* What log_sync does on reply.
C33_OnReply(reply) ==
    LET r == log_sync(followers, tasks, last_broadcast_seq_no, Hist, reply)
        sender == reply.header.sender
        old == followers[sender]
        schedules == PassesSeqNo(reply) /\ appended_tail.index > old.log_tail
    IN  /\ r.kind = "Ok"
        /\ \A n \in DOMAIN tasks : n \in DOMAIN r.tasks /\ r.tasks[n] = tasks[n]
        /\ DOMAIN r.tasks = DOMAIN tasks \cup (IF schedules THEN {sender} ELSE {})
        /\ schedules =>
               r.tasks[sender] =
                   [start |-> old.log_tail,
                    end |-> IF old.synced THEN appended_tail.index ELSE old.log_tail]
        /\ r.followers =
               IF PassesSeqNo(reply)
               THEN [followers EXCEPT ![sender].obsolete_seq_no = last_broadcast_seq_no]
               ELSE followers

\* No step replaces a read task in flight or lowers the obsolete_seq_no of
\* a follower.
TasksAndObsoleteKept ==
    /\ \A n \in DOMAIN tasks \cap DOMAIN tasks' : tasks'[n] = tasks[n]
    /\ \A n \in DOMAIN followers \cap DOMAIN followers' :
           followers[n].obsolete_seq_no <= followers'[n].obsolete_seq_no

\* C33: log_sync(reply) schedules a read for the sender only if the reply is
\* not busy, no read of that follower is in flight, the seq_no of the reply
\* is above the follower's obsolete_seq_no and the leader's tail index is
\* above the follower's log_tail; the read is load_log(log_tail, end) with
\* end the leader's tail index for a synced follower and log_tail otherwise.
\* A reply that passes the seq_no test sets obsolete_seq_no to the last
\* broadcast seq_no.  A read in flight is never replaced, so a follower has
\* at most one, and as obsolete_seq_no never decreases no reply with a
\* seq_no at or below it schedules a read again.
C33_LogSync ==
    /\ [](\A reply \in KnownReplies : C33_OnReply(reply))
    /\ [][TasksAndObsoleteKept]_vars

\* A read up to the leader's tail is in flight for a synced follower whose
\* obsolete_seq_no is the last of the sequence numbers, and a read of an
\* empty range for a follower that is not synced.
C33_Witness ==
    /\ \E n \in DOMAIN tasks :
           /\ followers[n].synced
           /\ followers[n].obsolete_seq_no = MaxSeqNo
           /\ tasks[n].end = appended_tail.index
           /\ tasks[n].start < tasks[n].end
    /\ \E n \in DOMAIN tasks :
           /\ ~followers[n].synced
           /\ tasks[n].end = tasks[n].start

\* C39: latest_hearbeat_ack never decreases, whatever replies are handled
\* and however the configuration is updated.
C39_AckNeverDecreases == [][latest_hearbeat_ack <= latest_hearbeat_ack']_vars

\* C40: every read task in flight belongs to a node that has a follower
\* record, and run_once sends a log to members of the configuration only.
C40_TasksOfFollowersOnly ==
    /\ DOMAIN tasks \subseteq DOMAIN followers
    /\ sent \subseteq members(config)

\* C37: the appended tail agrees with the records: the record that holds
\* appended_tail.index has the prev_term of appended_tail, and no record
\* begins beyond appended_tail.index.
C37_AppendedTailMatchesRecords ==
    /\ get_record(Hist, appended_tail.index) # None
    /\ get_record(Hist, appended_tail.index)[1].head.prev_term = appended_tail.prev_term
    /\ \A k \in 1..Len(records) : records[k].head.index <= appended_tail.index

\* C38: a record_appended that returns an error leaves the history as it
\* was before the call.
C38_FailedAppendChangesNothing ==
    \A suffix \in Suffixes :
        LET r == record_appended(Hist, suffix)
        IN  r.kind \notin {"Ok", "panic"} => r.h = Hist

\* The replies are one reply, and it answers header.
OneReplyTo(replies, header) == Len(replies) = 1 /\ replies[1].header = header

\* In Idle a call handled without an error is answered at once with one
\* reply and the follower stays in Idle, or it is not answered yet and the
\* follower moves to an Append that holds the header of the call.
C36_Idle ==
    \A message \in AppendEntriesCalls, overflow_checks \in BOOLEAN :
        LET r == handle_entries(Hist, message, overflow_checks)
        IN  r.kind = "Ok" =>
                IF r.next = None THEN OneReplyTo(r.replies, message.header)
                ELSE /\ r.replies = <<>>
                     /\ r.next[1].sub_state = "Append"
                     /\ r.next[1].append # None
                     /\ r.next[1].append[1].message.header = message.header
                     /\ (Stale(Hist, message) \/ Gap(Hist, message)) = FALSE

\* In Append a call is answered at once with one busy reply and the Append
\* goes on as it was; when the Append completes without an error the call
\* it holds is answered with one reply and the follower is back in Idle.
C36_Append ==
    /\ append # None
    /\ \A message \in AppendEntriesCalls :
           LET r == FollowerAppend_handle_message(Hist, message)
           IN  /\ r.kind = "Ok" /\ r.next = None /\ r.h = Hist
               /\ OneReplyTo(r.replies, message.header)
               /\ r.replies[1].busy
    /\ LET r == FollowerAppend_run_once(Hist, append[1])
       IN  r.kind = "Ok" =>
               /\ OneReplyTo(r.replies, append[1].message.header)
               /\ ~r.replies[1].busy
               /\ r.next = NextState("Idle", None)

\* C36: every AppendEntriesCall delivered in Idle or in Append and handled
\* without an error gets exactly one AppendEntriesReply with its header: at
\* once when it is stale, leaves a gap, diverges or arrives during an
\* Append (busy), and otherwise when the Append it started completes.  No
\* call is answered twice: Idle holds no call, and an Append holds the one
\* call that is not answered yet until it completes, replies and returns to
\* Idle.
C36_OneReplyPerCall ==
    /\ [](sub_state = "Idle" => append = None /\ (handled = "Ok" => C36_Idle))
    /\ [](sub_state = "Append" /\ handled = "Ok" => C36_Append)
    /\ [][(sub_state = "Append" /\ sub_state' = "Append") => append' = append]_vars
    /\ [][(sub_state = "Append" /\ sub_state' # "Append") =>
              /\ sub_state' = "Idle"
              /\ OneReplyTo(outbox', append[1].message.header)]_vars

\* An Append holds a call that is not answered yet while another call has
\* just been answered busy.
C36_Witness ==
    /\ sub_state = "Append"
    /\ handled = "Ok"
    /\ Len(outbox) = 1
    /\ outbox[1].busy
    /\ outbox[1].header # append[1].message.header

\* The history h shows the term of every position of suffix that lies at or
\* after its head, and its log reaches every one of them.
AgreesWith(h, suffix) ==
    \A k \in 1..Len(positions(suffix)) :
        LET p == positions(suffix)[k]
        IN  p.index >= head(h).index =>
                /\ get_record(h, p.index) # None
                /\ get_record(h, p.index)[1].head.prev_term = p.prev_term
                /\ p.index <= h.appended_tail.index

\* C35: when a call is accepted by the walk over the common prefix and the
\* Append it started completes, the follower's history agrees with the call
\* on every position of its suffix at or after the local head: the record
\* that holds the index has the prev_term of the position, and the index is
\* not beyond the appended tail.
C35_AppendAgreesWithMessage ==
    /\ (Idling /\ handled = "Ok") =>
           \A message \in AppendEntriesCalls, overflow_checks \in BOOLEAN :
               LET r == handle_entries(Hist, message, overflow_checks)
                   done == FollowerAppend_run_once(r.h, r.next[1].append[1])
               IN  (r.kind = "Ok" /\ r.next # None /\ done.kind = "Ok") =>
                       AgreesWith(done.h, message.suffix)
    /\ (Appending /\ handled = "Ok") =>
           LET done == FollowerAppend_run_once(Hist, append[1])
           IN  done.kind = "Ok" => AgreesWith(done.h, append[1].message.suffix)

\* An Append has completed on a log that began empty: the reply carries the
\* appended tail, which lies at the last index, and the record of a later
\* term that the entries of the call pushed is the last one.
C35_Witness ==
    /\ Idling
    /\ Len(outbox) = 1
    /\ ~outbox[1].busy
    /\ outbox[1].log_tail = appended_tail
    /\ appended_tail.index = MaxIndex
    /\ Len(records) = 2
    /\ records[1].head = LogPosition_default
    /\ records[2].head.prev_term > 0
    /\ records[2].head.prev_term = appended_tail.prev_term


\* The follower holds the leader's log up to the leader's tail, and the
\* leader knows it.
CaughtUp ==
    /\ followers[DiscoverNode].synced
    /\ followers[DiscoverNode].log_tail = LeaderLog.appended_tail.index
    /\ appended_tail.index >= LeaderLog.appended_tail.index
    /\ \A i \in 0..LeaderLog.appended_tail.index :
           /\ get_record(Hist, i) # None
           /\ get_record(Hist, i)[1].head.prev_term
                  = get_record(LeaderLog, i)[1].head.prev_term

====
